---- MODULE Spec2Model ----
(***************************************************************************)
(* Model of the widgets of the page: Calculator (src/src/componets/        *)
(* Calculator/Calculator.jsx), CurrencyConverter, Timer, ConnectionStatus, *)
(* PaperRockScissors, ButtonWithLoader and WeatherWidget.  Each widget has *)
(* its own variables and its own specifications; the actions of one leave  *)
(* the others unchanged.                                                   *)
(* In the Calculator a JavaScript string is a sequence of one-character     *)
(* strings; a JavaScript number is a fraction n/d in lowest terms, where   *)
(* d = 0 encodes the non-finite values (1/0 Infinity, -1/0 -Infinity,      *)
(* 0/0 NaN).  Arithmetic on fractions is exact: it agrees with IEEE-754    *)
(* doubles on every value the bounds below admit, except for the last bits *)
(* of a quotient, which toFixed(8) rounds away.                            *)
(***************************************************************************)
EXTENDS Integers, Sequences, FiniteSets, TLC

VARIABLES
    expression,      \* useState("")   Calculator.jsx:10
    screenNumbers,   \* useState("0")  Calculator.jsx:8
    previousResult,  \* useState(null) Calculator.jsx:12
    val,             \* the argument of the last handleButtonClick call
    before,          \* the three state values that call read (its closure)
    closure,         \* the state values the memoized handleButtonClick
                     \* closes over, Calculator.jsx:79-253
    listener,        \* the state values closed over by the handleKeyDown
                     \* registered on document, Calculator.jsx:256-289
    key,             \* event.key of the last keydown ("" after a click)
    page,            \* several Calculator instances on one page: for each
                     \* its state, the values its callback closes over and
                     \* the values behind its keydown listener
    \* CurrencyConverter, src/src/componets/CurrencyConverter/
    \* CurrencyConverter.jsx
    converterMounted,   \* the widget has been mounted
    inputCurrency,      \* useState("USD")  :9
    exchangeRates,      \* useState({})     :14
    isLoading,          \* useState(false)  :15
    error,              \* useState("")     :13
    exchangeRateCache,  \* new Map()        :5
    fetches,            \* the requests in flight, in the order issued: the
                        \* inputCurrency each fetchExchangeRates closed over
    event,              \* the last event of the converter
    \* Timer, src/unnamed/part_001
    timer,              \* "mounted", or "removed" once unmounted
    seconds,            \* useState(0)      :11
    running,            \* useState(false)  :12
    intervalRef,        \* useRef(null)     :13  (0: null)
    intervals,          \* the ids of the intervals active in the browser
    lastInterval,       \* the last id setInterval returned
    timerEvent,         \* the last event of the timer
    \* ConnectionStatus, src/src/componets/ConnectionStatus/
    \* ConnectionStatus.jsx
    connection,         \* "unmounted", "mounted", or "removed"
    isOnline,           \* useState(() => navigator.onLine)  :12
    showStatus,         \* useState(false)  :14
    message,            \* useState("")     :16
    timeoutRef,         \* useRef(null)     :18  (0: null)
    wasOfflineRef,      \* useRef(false)    :20
    timeouts,           \* the ids of the timeouts pending in the browser
    lastTimeout,        \* the last id setTimeout returned
    connectionEvent,    \* the last event of the banner
    network,            \* the last connectivity reported to the banner
    lost,               \* the connection has been reported lost
    fired,              \* the number of hide callbacks that have run
    \* PaperRockScissors, src/unnamed/part_002
    game,               \* "mounted", or "removed" once unmounted
    userChoice,         \* useState("")     :298
    computerChoice,     \* useState("")     :299
    gameResult,         \* useState("")     :300  (result)
    isAnimating,        \* useState(false)  :301
    animationChoice,    \* useState("")     :302
    scores,             \* useState({userWins: 0, draws: 0, computerWins: 0})
    animationIntervalRef,   \* useRef(null) :311  (0: null)
    animations,         \* the intervals active in the browser: for each id
                        \* the choice and the cycleCount of its callback
    lastAnimation,      \* the last id setInterval returned to the game
    started,            \* the number of games started
    completed,          \* the number of results produced
    ticked,             \* the number of callbacks run since the last start
    gameEvent,          \* the last event of the game
    \* ButtonWithLoader, src/unnamed/part_003
    buttonIsLoading,    \* useState(false)  :10  (isLoading)
    operation,          \* what handleClick awaits: "none", "value" (onClick
                        \* returned a plain value) or "promise"
    clicks,             \* the number of calls of onClick
    settled,            \* how the calls of onClick ended, in order
    buttonEvent,        \* the last event of the button
    \* WeatherWidget, src/unnamed/part_002
    city,               \* useState("")     :48
    weather,            \* useState(null)   :50  ("": null, else the place)
    loading,            \* useState(false)  :52
    weatherError,       \* useState("")     :54  (error)
    cityOptions,        \* useState([])     :56
    requests,           \* the fetches in flight: the id, the kind
                        \* ("geocode" or "forecast") and the place of each
    lastRequest,        \* the number of fetches issued
    weatherEvent        \* the last event of the widget

calcVars == <<expression, screenNumbers, previousResult>>
keyVars == <<closure, listener, key>>
converterVars == <<converterMounted, inputCurrency, exchangeRates, isLoading,
                   error, exchangeRateCache, fetches, event>>
calculatorVars == <<expression, screenNumbers, previousResult, val, before,
                    closure, listener, key, page>>
timerVars == <<timer, seconds, running, intervalRef, intervals, lastInterval,
               timerEvent>>
gameVars == <<game, userChoice, computerChoice, gameResult, isAnimating,
              animationChoice, scores, animationIntervalRef, animations,
              lastAnimation, started, completed, ticked, gameEvent>>
buttonVars == <<buttonIsLoading, operation, clicks, settled, buttonEvent>>
weatherVars == <<city, weather, loading, weatherError, cityOptions, requests,
                 lastRequest, weatherEvent>>
connectionVars == <<connection, isOnline, showStatus, message, timeoutRef,
                    wasOfflineRef, timeouts, lastTimeout, connectionEvent,
                    network, lost, fired>>
widgetVars == <<page, converterVars, timerVars, connectionVars, gameVars,
               buttonVars, weatherVars>>
vars == <<expression, screenNumbers, previousResult, val, before,
          closure, listener, key, widgetVars>>

(***************************************************************************)
(* Bounds of the model.                                                    *)
(***************************************************************************)
\* Longest expression under construction (a finished result may be longer).
MaxLen == 3
\* Largest numerator and denominator a unary operation is applied to.
MaxMagnitude == 10
\* Longest expression typed in the arithmetic-only specification SpecArith.
ArithLen == 5
\* Longest expression typed in the chained-calculation specification
\* SpecChain, and the largest denominator it takes a percentage of.
ChainLen == 6
MaxDenominator == 1000000
\* Largest number of binary operators in an expression typed in SpecChain,
\* and the largest whole part of a result it continues from.
MaxOps == 1
MaxWhole == 1
\* Longest expression typed in the quotient specification SpecQuotient.
QuotientLen == 9
\* Longest expression typed in the keyboard specification SpecKeys.
KeyLen == 2
\* Longest expression typed into an instance in the page specification.
PageLen == 2
\* Largest number of exchange-rate requests in flight.
MaxFetches == 3
\* Largest number of intervals the timer starts, and of seconds it counts.
MaxIntervals == 4
MaxSeconds == 12
\* Largest number of hide timeouts the connection banner schedules.
MaxTimeouts == 6
\* Largest number of games played.
MaxGames == 3
\* Largest number of clicks on the button.
MaxClicks == 6
\* Largest number of fetches the weather widget issues.
MaxRequests == 4

(***************************************************************************)
(* Characters and tokens.                                                  *)
(***************************************************************************)
TIMES == "×"
DIVIDE == "÷"
COMMA == ","
BACKSPACE == "<x"
PERCENT == "%"
NEGATE == "+/-"
RECIPROCAL == "1/x"
SQUARE == "x²"
SQRT == "sqrt"

AllDigits == <<"0", "1", "2", "3", "4", "5", "6", "7", "8", "9">>
DigitChars == {AllDigits[i] : i \in 1..10}
\* The digit buttons the main specification presses.
Digits == {"0", "4", "5"}
\* The digit buttons the arithmetic-only specification presses.
ArithDigits == {"0", "2", "3", "4"}
Operators == {"+", "-", TIMES, DIVIDE}
UnaryOps == {PERCENT, NEGATE, RECIPROCAL, SQUARE, SQRT}

DigitValue(c) == (CHOOSE i \in 1..10 : AllDigits[i] = c) - 1

ErrorStr == <<"E", "r", "r", "o", "r">>

\* String.prototype.slice(0, -1)
DropLast(s) == IF Len(s) = 0 THEN s ELSE SubSeq(s, 1, Len(s) - 1)
\* String.prototype.slice(-1)
LastChar(s) == IF Len(s) = 0 THEN "" ELSE s[Len(s)]
\* String.prototype.includes
Includes(s, c) == \E i \in 1..Len(s) : s[i] = c

(***************************************************************************)
(* Numbers.                                                                *)
(***************************************************************************)
Abs(x) == IF x < 0 THEN -x ELSE x
Sign(x) == IF x < 0 THEN -1 ELSE IF x > 0 THEN 1 ELSE 0

RECURSIVE GCD(_, _)
GCD(a, b) == IF b = 0 THEN a ELSE GCD(b, a % b)

\* The number n/d in lowest terms, the sign in the numerator.
Frac(n, d) ==
    IF d = 0 THEN [n |-> Sign(n), d |-> 0]
    ELSE LET g == GCD(Abs(n), Abs(d))
         IN  [n |-> Sign(d) * (n \div g), d |-> Abs(d) \div g]

Num(i) == [n |-> i, d |-> 1]
NaN == [n |-> 0, d |-> 0]
Infinity == [n |-> 1, d |-> 0]
\* The value null of previousResult.
null == [n |-> 0, d |-> -1]

isNaN(x) == x.d = 0 /\ x.n = 0
isFinite(x) == x.d > 0

Neg(x) == [n |-> -x.n, d |-> x.d]
Add(x, y) ==
    IF x.d = 0 /\ y.d = 0
    THEN IF x.n = y.n THEN x ELSE NaN
    ELSE Frac(x.n * y.d + y.n * x.d, x.d * y.d)
Sub(x, y) == Add(x, Neg(y))
Mul(x, y) == Frac(x.n * y.n, x.d * y.d)
\* x / y; the zero of the model is +0, so 5/0 is Infinity and -5/0 -Infinity.
Div(x, y) == Frac(x.n * y.d * (IF y.n < 0 THEN -1 ELSE 1), x.d * Abs(y.n))

RECURSIVE Pow10(_)
Pow10(k) == IF k = 0 THEN 1 ELSE 10 * Pow10(k - 1)

RECURSIVE ISqrtFrom(_, _)
ISqrtFrom(n, r) == IF r * r >= n THEN r ELSE ISqrtFrom(n, r + 1)
IsSquare(n) == n >= 0 /\ ISqrtFrom(n, 0) * ISqrtFrom(n, 0) = n
\* Math.sqrt, on the fractions whose root is a fraction.
MathSqrt(x) ==
    IF x.d = 0 THEN (IF x.n = 1 THEN Infinity ELSE NaN)
    ELSE IF x.n < 0 THEN NaN
    ELSE Frac(ISqrtFrom(x.n, 0), ISqrtFrom(x.d, 0))

(***************************************************************************)
(* Number to string and string to number.                                  *)
(***************************************************************************)
\* Number of fractional digits kept by formatNumber: num.toFixed(8).
FractionDigits == 8

RECURSIVE IntStr(_)
IntStr(i) ==
    IF i < 10 THEN <<AllDigits[i + 1]>>
    ELSE Append(IntStr(i \div 10), AllDigits[(i % 10) + 1])

\* The k-digit, zero-padded decimal numeral of f.
RECURSIVE PadStr(_, _)
PadStr(f, k) ==
    IF k = 0 THEN <<>>
    ELSE Append(PadStr(f \div 10, k - 1), AllDigits[(f % 10) + 1])

RECURSIVE StripZeros(_)
StripZeros(s) ==
    IF Len(s) > 0 /\ s[Len(s)] = "0" THEN StripZeros(DropLast(s)) ELSE s

\* The first k fractional digits of r/d (r < d) as an integer, and the
\* remainder left after them.
RECURSIVE FracDigits(_, _, _, _)
FracDigits(r, d, k, acc) ==
    IF k = 0 THEN [f |-> acc, r |-> r]
    ELSE FracDigits((r * 10) % d, d, k - 1, acc * 10 + ((r * 10) \div d))

\* Number.prototype.toFixed(8) of a finite x: the integer part i and the
\* fraction f / 10^8 of |x| rounded to 8 fractional digits, a tie rounded up.
Carried(neg, i, f) ==
    IF f = Pow10(FractionDigits) THEN [neg |-> neg, i |-> i + 1, f |-> 0]
    ELSE [neg |-> neg, i |-> i, f |-> f]
Rounded(neg, i, q, d) == Carried(neg, i, IF 2 * q.r >= d THEN q.f + 1 ELSE q.f)
ToFixed(x) ==
    Rounded(x.n < 0, Abs(x.n) \div x.d,
            FracDigits(Abs(x.n) % x.d, x.d, FractionDigits, 0), x.d)

\* Number(...).toString() of the value toFixed(8) printed: a value below
\* 1e-6 is written with an exponent, a zero loses its sign.
NumberToString(t) ==
    IF t.i = 0 /\ t.f = 0 THEN <<"0">>
    ELSE (IF t.neg THEN <<"-">> ELSE <<>>) \o
         (IF t.i = 0 /\ t.f < 10
            THEN <<AllDigits[t.f + 1], "e", "-", "8">>
          ELSE IF t.i = 0 /\ t.f < 100
            THEN <<AllDigits[(t.f \div 10) + 1]>> \o
                 (IF t.f % 10 = 0 THEN <<>>
                  ELSE <<".", AllDigits[(t.f % 10) + 1]>>) \o
                 <<"e", "-", "7">>
          ELSE IntStr(t.i) \o
               (IF t.f = 0 THEN <<>>
                ELSE <<".">> \o StripZeros(PadStr(t.f, FractionDigits))))

formatNumber(num) ==
    IF ~isFinite(num) THEN ErrorStr ELSE NumberToString(ToFixed(num))

\* The first position from i on that holds no digit.
RECURSIVE DigitsEnd(_, _)
DigitsEnd(s, i) ==
    IF i <= Len(s) /\ s[i] \in DigitChars THEN DigitsEnd(s, i + 1) ELSE i

\* The value of the decimal numeral s[i..j-1] (0 when it is empty).
RECURSIVE IntVal(_, _, _)
IntVal(s, i, j) ==
    IF j <= i THEN 0 ELSE IntVal(s, i, j - 1) * 10 + DigitValue(s[j - 1])

\* parseFloat: the longest prefix of s that is a decimal literal (a sign,
\* digits, a "." and digits, an exponent); NaN when there is none.
\* It is read in steps, each handing the positions found so far to the
\* next: i0 the first position after the sign, i1 the end of the integer
\* digits, i2 the end of the fraction (i1 when there is no "."), e0 the
\* first position of the exponent digits, exp the exponent.
Scaled(sgn, ndigits, mant, nfrac, exp) ==
    IF ndigits = 0 THEN NaN
    ELSE IF exp >= 0 THEN Frac(sgn * mant * Pow10(exp), Pow10(nfrac))
    ELSE Frac(sgn * mant, Pow10(nfrac - exp))
Mantissa(s, i0, i1, i2, nfrac, exp) ==
    Scaled(IF i0 = 2 /\ s[1] = "-" THEN -1 ELSE 1, (i1 - i0) + nfrac,
           IntVal(s, i0, i1) * Pow10(nfrac) + IntVal(s, i1 + 1, i2), nfrac, exp)
Decimal(s, i0, i1, i2, exp) ==
    Mantissa(s, i0, i1, i2, IF i2 > i1 THEN i2 - (i1 + 1) ELSE 0, exp)
ExponentDigits(s, i0, i1, i2, e0, e1) ==
    Decimal(s, i0, i1, i2,
            IF e1 > e0
            THEN (IF s[e0 - 1] = "-" THEN -1 ELSE 1) * IntVal(s, e0, e1)
            ELSE 0)
ExponentSign(s, i0, i1, i2, e0) ==
    ExponentDigits(s, i0, i1, i2, e0, DigitsEnd(s, e0))
Exponent(s, i0, i1, i2) ==
    IF i2 <= Len(s) /\ s[i2] \in {"e", "E"}
    THEN ExponentSign(s, i0, i1, i2,
                      IF i2 + 1 <= Len(s) /\ s[i2 + 1] \in {"+", "-"}
                      THEN i2 + 2 ELSE i2 + 1)
    ELSE Decimal(s, i0, i1, i2, 0)
Fraction(s, i0, i1) ==
    Exponent(s, i0, i1,
             IF i1 <= Len(s) /\ s[i1] = "." THEN DigitsEnd(s, i1 + 1) ELSE i1)
Unsigned(s, i0) == Fraction(s, i0, DigitsEnd(s, i0))
parseFloat(s) ==
    Unsigned(s, IF Len(s) >= 1 /\ s[1] \in {"+", "-"} THEN 2 ELSE 1)


(***************************************************************************)
(* safeEval: the expression, translated, screened and handed to the        *)
(* JavaScript parser as strict-mode code.                                  *)
(***************************************************************************)
\* expression.replace(/÷/g, "/").replace(/×/g, "*").replace(/,/g, ".")
Sanitize(s) ==
    [i \in 1..Len(s) |->
        IF s[i] = DIVIDE THEN "/"
        ELSE IF s[i] = TIMES THEN "*"
        ELSE IF s[i] = COMMA THEN "."
        ELSE s[i]]

\* /^[\d+\-*/.() ]+$/.test(sanitized)
AllowedChars == DigitChars \cup {"+", "-", "*", "/", ".", "(", ")", " "}
\* Mutant of PassesScreen: the pattern is not anchored, /[\d+\-*/.() ]+/, so
\* one allowed character is enough.
PassesScreenUnanchored(s) == \E i \in 1..Len(s) : s[i] \in AllowedChars

PassesScreen(s) == Len(s) > 0 /\ \A i \in 1..Len(s) : s[i] \in AllowedChars

\* The first position from i on that holds neither a digit nor a ".".
RECURSIVE MantissaEnd(_, _)
MantissaEnd(s, i) ==
    IF i <= Len(s) /\ s[i] \in DigitChars \cup {"."}
    THEN MantissaEnd(s, i + 1) ELSE i

\* The end of the exponent part that starts at position m (an "e", an
\* optional sign, digits); m itself when no digit follows.
ExponentDigitsFrom(s, m) ==
    IF m + 1 <= Len(s) /\ s[m + 1] \in {"+", "-"} THEN m + 2 ELSE m + 1
ExponentPart(s, m) ==
    IF /\ m <= Len(s)
       /\ s[m] \in {"e", "E"}
       /\ DigitsEnd(s, ExponentDigitsFrom(s, m)) > ExponentDigitsFrom(s, m)
    THEN DigitsEnd(s, ExponentDigitsFrom(s, m))
    ELSE m

\* The end of the numeric literal that starts at position i: digits and
\* ".", then an exponent part if there is one.
LiteralEnd(s, i) == ExponentPart(s, MantissaEnd(s, i))

\* s[i..j-1] is digits and "." of one strict-mode decimal literal: 0 or a
\* numeral without a leading zero, then at most one "." and digits; or "."
\* and digits.  (A numeral such as 07 or 09 is a SyntaxError in strict mode;
\* 1.5.5 is two literals side by side, a SyntaxError too.)
IsMantissa(s, i, j) ==
    LET k == DigitsEnd(s, i)
    IN  IF k > i
        THEN /\ (k = i + 1 \/ s[i] # "0")
             /\ (k = j \/ (s[k] = "." /\ DigitsEnd(s, k + 1) = j))
        ELSE j > i + 1 /\ s[i] = "." /\ DigitsEnd(s, i + 1) = j

\* s[i..j-1] is one strict-mode decimal literal, j its end.
IsLiteral(s, i, j) ==
    IsMantissa(s, i, MantissaEnd(s, i)) /\ j = LiteralEnd(s, i)

LiteralValue(s, i, j) == parseFloat(SubSeq(s, i, j - 1))

Failed == [ok |-> FALSE, v |-> NaN, i |-> 0]

\* x op y
Binary(op, x, y) ==
    IF op = "*" THEN Mul(x, y)
    ELSE IF op = "/" THEN Div(x, y)
    ELSE IF op = "+" THEN Add(x, y)
    ELSE Sub(x, y)

\* MultiplicativeExpression, continued from position i with value acc.
RECURSIVE TermRest(_, _, _)
TermRest(s, i, acc) ==
    IF i <= Len(s) /\ s[i] \in {"*", "/"}
    THEN LET j == LiteralEnd(s, i + 1)
         IN  IF ~IsLiteral(s, i + 1, j) THEN Failed
             ELSE TermRest(s, j, Binary(s[i], acc, LiteralValue(s, i + 1, j)))
    ELSE [ok |-> TRUE, v |-> acc, i |-> i]

\* A MultiplicativeExpression starting at position i; sgn is the unary sign
\* in front of its first literal.
Term(s, i, sgn) ==
    LET j == LiteralEnd(s, i)
    IN  IF ~IsLiteral(s, i, j) THEN Failed
        ELSE TermRest(s, j, Mul(Num(sgn), LiteralValue(s, i, j)))

\* AdditiveExpression, continued from position i with value acc; ExprNext
\* takes the term t that follows the operator op.
RECURSIVE ExprRest(_, _, _)
RECURSIVE ExprNext(_, _, _, _)
ExprRest(s, i, acc) ==
    IF i > Len(s) THEN [ok |-> TRUE, v |-> acc, i |-> i]
    ELSE IF s[i] \in {"+", "-"} THEN ExprNext(s, s[i], acc, Term(s, i + 1, 1))
    ELSE Failed
ExprNext(s, op, acc, t) ==
    IF ~t.ok THEN Failed ELSE ExprRest(s, t.i, Binary(op, acc, t.v))

\* Function(`"use strict"; return (${sanitized})`)(), as a number: NaN for a
\* SyntaxError and for a text that starts with "/" (a SyntaxError or a
\* regular expression, which isNaN turns into NaN).
ExprStart(s, t) == IF t.ok THEN ExprRest(s, t.i, t.v) ELSE Failed
Completion(e) == IF e.ok THEN e.v ELSE NaN
EvalJS(s) ==
    Completion(ExprStart(s, Term(s, IF s[1] \in {"+", "-"} THEN 2 ELSE 1,
                                 IF s[1] = "-" THEN -1 ELSE 1)))

\* The texts EvalJS models: no parenthesis, no space, and no operator next
\* to an operator (no button and no key writes any of these).
InGrammar(s) ==
    /\ \A i \in 1..Len(s) : s[i] \notin {"(", ")", " "}
    /\ \A i \in 1..(Len(s) - 1) :
          ~(s[i] \in {"+", "-", "*", "/"} /\ s[i + 1] \in {"+", "-", "*", "/"})

safeEval(e) ==
    LET sanitized == Sanitize(e)
    IN  IF ~PassesScreen(sanitized) THEN NaN ELSE EvalJS(sanitized)


(***************************************************************************)
(* handleButtonClick.  A state s is the record of the three useState       *)
(* values the callback closes over; each branch gives the values its       *)
(* setState calls leave.                                                   *)
(***************************************************************************)
State(e, scr, r) == [expression |-> e, screenNumbers |-> scr, previousResult |-> r]

InitialState == State(<<>>, <<"0">>, null)
ErrorState == State(<<>>, ErrorStr, null)

\* expression.trim() is the empty string
IsBlank(s) == \A i \in 1..Len(s) : s[i] = " "

\* if (val === "C")
ClearAllBranch(s) == State(<<>>, <<"0">>, null)

\* The else branch of the test of result: formattedResult is shown.
EqualsSuccess(formattedResult, result) ==
    State(formattedResult, formattedResult, result)

\* Mutant of EqualsResult: the failure test forgets !isFinite(result).
EqualsResultNoFiniteTest(result) ==
    IF isNaN(result) THEN State(<<>>, ErrorStr, null)
    ELSE EqualsSuccess(formatNumber(result), result)

\* if (isNaN(result) || !isFinite(result)) ... else ...
EqualsResult(result) ==
    IF isNaN(result) \/ ~isFinite(result) THEN State(<<>>, ErrorStr, null)
    ELSE EqualsSuccess(formatNumber(result), result)

\* if (val === "=")
EqualsBranch(s) ==
    IF IsBlank(s.expression) THEN s ELSE EqualsResult(safeEval(s.expression))

\* Mutant of BackspaceBranch: no special case for a last character, no
\* fallback to "0".
BackspaceBranchNoZero(s) ==
    IF s.previousResult # null THEN State(<<>>, <<"0">>, null)
    ELSE State(DropLast(s.expression), DropLast(s.expression), s.previousResult)

\* Mutant of BackspaceBranch: a shown result is not cleared but loses its
\* last character like a typed expression.
BackspaceBranchUntypesResult(s) ==
    IF Len(s.expression) <= 1 THEN State(<<>>, <<"0">>, s.previousResult)
    ELSE State(DropLast(s.expression), DropLast(s.expression), s.previousResult)

\* if (val === BACKSPACE)
BackspaceBranch(s) ==
    IF s.previousResult # null THEN State(<<>>, <<"0">>, null)
    ELSE IF Len(s.expression) <= 1
    THEN State(<<>>, <<"0">>, s.previousResult)
    ELSE LET newExp == DropLast(s.expression)
         IN  State(newExp, IF newExp = <<>> THEN <<"0">> ELSE newExp,
                   s.previousResult)

\* Mutant of ClearEntryBranch: setPreviousResult(null) is forgotten.
ClearEntryBranchKeepsResult(s) == State(<<>>, <<"0">>, s.previousResult)

\* if (val === "CE")
ClearEntryBranch(s) == State(<<>>, <<"0">>, null)

\* The last part of expression.split(/[+\-×÷]/).
RECURSIVE CurrentNumber(_)
CurrentNumber(e) ==
    IF Len(e) = 0 \/ e[Len(e)] \in Operators THEN <<>>
    ELSE Append(CurrentNumber(DropLast(e)), e[Len(e)])

\* /[+\-×÷]$/.test(expression)
EndsInOperator(e) == Len(e) > 0 /\ e[Len(e)] \in Operators

\* Mutant of DecimalBranch: the test for an empty expression or a trailing
\* operator is forgotten, the separator is always appended alone.
DecimalBranchAppendsAlone(s) ==
    IF s.previousResult # null THEN State(<<"0", COMMA>>, <<"0", COMMA>>, null)
    ELSE IF Includes(CurrentNumber(s.expression), COMMA) THEN s
    ELSE State(Append(s.expression, COMMA), Append(s.expression, COMMA),
               s.previousResult)

\* if (val === ",")
DecimalBranch(s) ==
    IF s.previousResult # null THEN State(<<"0", COMMA>>, <<"0", COMMA>>, null)
    ELSE IF Includes(CurrentNumber(s.expression), COMMA) THEN s
    ELSE IF s.expression = <<>> \/ EndsInOperator(s.expression)
    THEN State(s.expression \o <<"0", COMMA>>, s.expression \o <<"0", COMMA>>,
               s.previousResult)
    ELSE State(Append(s.expression, COMMA), Append(s.expression, COMMA),
               s.previousResult)

\* mathOps[val](): the formatted result, or null (ok = FALSE).
Null == [ok |-> FALSE, str |-> <<>>]
Formatted(x) == [ok |-> TRUE, str |-> formatNumber(x)]
\* The body of mathOps[v], num being parseFloat(screenNumbers).
MathOp(v, num) ==
    IF v = PERCENT
      THEN (IF isFinite(num) THEN Formatted(Div(num, Num(100))) ELSE Null)
    ELSE IF v = NEGATE
      THEN (IF isFinite(num) THEN Formatted(Neg(num)) ELSE Null)
    ELSE IF v = RECIPROCAL
      THEN (IF ~isFinite(num) \/ num.n = 0 THEN Null
            ELSE Formatted(Div(Num(1), num)))
    ELSE IF v = SQUARE
      THEN (IF isFinite(num) THEN Formatted(Mul(num, num)) ELSE Null)
    ELSE (IF ~isFinite(num) \/ num.n < 0 THEN Null
          ELSE Formatted(MathSqrt(num)))
mathOps(v, screen) == MathOp(v, parseFloat(screen))

\* Mutant of MathOpResult: setExpression(result) is forgotten.
MathOpResultKeepsExpression(s, result) ==
    IF result.ok THEN State(s.expression, result.str, parseFloat(result.str))
    ELSE State(<<>>, ErrorStr, null)

\* Mutant of MathOpResult: the test result !== null is forgotten, a null
\* result is written to the state like a formatted one.
MathOpResultNoNullTest(s, result) ==
    State(result.str, result.str, parseFloat(result.str))

\* if (result !== null) ... else ..., in state s
MathOpResult(s, result) ==
    IF result.ok THEN State(result.str, result.str, parseFloat(result.str))
    ELSE State(<<>>, ErrorStr, null)

\* if (mathOps[val])
MathOpBranch(s, v) == MathOpResult(s, mathOps(v, s.screenNumbers))

\* Mutant of DigitAfterResultBranch: setPreviousResult(null) is forgotten.
DigitAfterResultBranchKeepsResult(s, v) == State(<<v>>, <<v>>, s.previousResult)

\* if (previousResult !== null && /[0-9]/.test(val))
DigitAfterResultBranch(s, v) == State(<<v>>, <<v>>, null)

\* Mutant of OperatorAfterResultBranch: setScreenNumbers(newExp) is
\* forgotten.
OperatorAfterResultBranchKeepsDisplay(s, v) ==
    State(Append(s.screenNumbers, v), s.screenNumbers, null)

\* if (["+", "-", "×", "÷"].includes(val)), its first return
OperatorAfterResultBranch(s, v) ==
    State(Append(s.screenNumbers, v), Append(s.screenNumbers, v), null)

\* Mutant of ReplaceOperatorBranch: the operator is appended to the trailing
\* operator instead of replacing it.
ReplaceOperatorBranchAppends(s, v) ==
    State(Append(s.expression, v), Append(s.expression, v), s.previousResult)

\* if (["+", "-", "×", "÷"].includes(lastChar))
ReplaceOperatorBranch(s, v) ==
    State(Append(DropLast(s.expression), v), Append(DropLast(s.expression), v),
          s.previousResult)

\* Mutant of FallbackBranch: a digit always starts the expression anew (the
\* test expression === "" is forgotten).
FallbackBranchDigitReplaces(s, v) ==
    LET newExp == IF v \in DigitChars THEN <<v>> ELSE Append(s.expression, v)
    IN  State(newExp, IF newExp = <<>> THEN <<"0">> ELSE newExp, null)

\* Mutant of FallbackBranch: the token is appended to what the display
\* shows instead of the display showing the new expression.
FallbackBranchAppendsToDisplay(s, v) ==
    LET newExp == IF s.expression = <<>> /\ v \in DigitChars THEN <<v>>
                  ELSE Append(s.expression, v)
    IN  State(newExp, Append(s.screenNumbers, v), null)

\* The fallback at the end of the callback.
FallbackBranch(s, v) ==
    LET newExp == IF s.expression = <<>> /\ v \in DigitChars THEN <<v>>
                  ELSE Append(s.expression, v)
    IN  State(newExp, IF newExp = <<>> THEN <<"0">> ELSE newExp, null)

\* The state handleButtonClick(v) leaves when it runs in state s.
handleButtonClick(s, v) ==
    IF v = "C" THEN ClearAllBranch(s)
    ELSE IF v = "=" THEN EqualsBranch(s)
    ELSE IF v = BACKSPACE THEN BackspaceBranch(s)
    ELSE IF v = "CE" THEN ClearEntryBranch(s)
    ELSE IF v = COMMA THEN DecimalBranch(s)
    ELSE IF v \in UnaryOps THEN MathOpBranch(s, v)
    ELSE IF s.previousResult # null /\ v \in DigitChars
      THEN DigitAfterResultBranch(s, v)
    ELSE IF v \in Operators /\ s.previousResult # null
      THEN OperatorAfterResultBranch(s, v)
    ELSE IF v \in Operators /\ LastChar(s.expression) \in Operators
      THEN ReplaceOperatorBranch(s, v)
    ELSE FallbackBranch(s, v)

(***************************************************************************)
(* The state machine: one button click after another.                      *)
(***************************************************************************)
Current == State(expression, screenNumbers, previousResult)

\* An exponent of str has at most one digit.
ExponentFits(str) ==
    \A i \in 1..Len(str) :
        str[i] \in {"e", "E"} =>
            LET j == IF i + 1 <= Len(str) /\ str[i + 1] \in {"+", "-"}
                     THEN i + 2 ELSE i + 1
            IN  DigitsEnd(str, j) - j <= 1

\* The numerals the model reads back as a fraction: at most 9 digits and
\* a one-digit exponent, so that numerator and denominator are 32-bit
\* integers.
ParseFits(str) ==
    /\ Cardinality({i \in 1..Len(str) : str[i] \in DigitChars}) <= 9
    /\ ExponentFits(str)

\* The operands the model applies a unary operation to: any display that is
\* no number, and the fractions within MaxMagnitude; a square root is taken
\* of a negative number or of the square of a fraction.
InDomain(v, x) ==
    \/ ~isFinite(x)
    \/ /\ Abs(x.n) <= MaxMagnitude
       /\ x.d <= MaxMagnitude
       /\ (v = SQRT /\ x.n >= 0) => (IsSquare(x.n) /\ IsSquare(x.d))

\* The unary operations the model follows.
OperandInBounds(v, num) == InDomain(v, num) /\ ParseFits(MathOp(v, num).str)
UnaryInBounds(s, v) ==
    /\ ParseFits(s.screenNumbers)
    /\ OperandInBounds(v, parseFloat(s.screenNumbers))

\* The states the model follows a click into: the expression under
\* construction stays within maxLen characters (a result, previousResult
\* set, has any length).
InBounds(n, maxLen) == n.previousResult # null \/ Len(n.expression) <= maxLen

\* The dependencies of useCallback: handleButtonClick is created anew by
\* the render in which one of them differs from the render before.
(***************************************************************************)
(* CurrencyConverter: the values of its state after construction.  The     *)
(* rates of a response are the currency they are rates of (base) and the   *)
(* day's quotation; {} is the object without rates.                        *)
(***************************************************************************)
NoRates == [base |-> "", quote |-> 0]
Undefined == [base |-> "undefined", quote |-> 0]
NoEvent == [type |-> "none", currency |-> "", outcome |-> ""]

ConverterInit ==
    /\ converterMounted = FALSE
    /\ inputCurrency = "USD"
    /\ exchangeRates = NoRates
    /\ isLoading = FALSE
    /\ error = ""
    /\ exchangeRateCache = [c \in {} |-> NoRates]
    /\ fetches = <<>>
    /\ event = NoEvent

(***************************************************************************)
(* Timer and ConnectionStatus: the values of their state after             *)
(* construction.  A timer id is a positive integer, 0 stands for null.     *)
(***************************************************************************)
TimerInit ==
    /\ timer = "mounted"
    /\ seconds = 0
    /\ running = FALSE
    /\ intervalRef = 0
    /\ intervals = {}
    /\ lastInterval = 0
    /\ timerEvent = "none"

ConnectionInit ==
    /\ connection = "unmounted"
    /\ isOnline = TRUE
    /\ showStatus = FALSE
    /\ message = ""
    /\ timeoutRef = 0
    /\ wasOfflineRef = FALSE
    /\ timeouts = {}
    /\ lastTimeout = 0
    /\ connectionEvent = "none"
    /\ network = "none"
    /\ lost = FALSE
    /\ fired = 0

GameInit ==
    /\ game = "mounted"
    /\ userChoice = ""
    /\ computerChoice = ""
    /\ gameResult = ""
    /\ isAnimating = FALSE
    /\ animationChoice = ""
    /\ scores = [userWins |-> 0, draws |-> 0, computerWins |-> 0]
    /\ animationIntervalRef = 0
    /\ animations = [id \in {} |-> 0]
    /\ lastAnimation = 0
    /\ started = 0
    /\ completed = 0
    /\ ticked = 0
    /\ gameEvent = "none"

ButtonInit ==
    /\ buttonIsLoading = FALSE
    /\ operation = "none"
    /\ clicks = 0
    /\ settled = <<>>
    /\ buttonEvent = "none"

WeatherInit ==
    /\ city = ""
    /\ weather = ""
    /\ loading = FALSE
    /\ weatherError = ""
    /\ cityOptions = <<>>
    /\ requests = {}
    /\ lastRequest = 0
    /\ weatherEvent = "none"

\* The Calculator instances of the page, and an instance as mounted.
Instance == {"a", "b"}
Mounted == [state |-> InitialState, closure |-> InitialState,
            listener |-> InitialState]

HandlerDepsNoExpression == {"screenNumbers", "previousResult"}
HandlerDeps == {"expression", "screenNumbers", "previousResult"}

\* The values handleButtonClick closes over after the render of state n:
\* those of n when a dependency changed, else those of the memoized
\* callback.
useCallback(memo, n) ==
    IF \E d \in HandlerDeps : memo[d] # n[d] THEN n ELSE memo

\* The values behind the keydown listener after that render: the effect
\* (dependency handleButtonClick) replaces the listener when the callback
\* is a new one.
useEffect(registered, memo, callback) ==
    IF callback # memo THEN callback ELSE registered

\* A Calculator instance after the render of state n.
Rendered(inst, n) ==
    [state |-> n,
     closure |-> useCallback(inst.closure, n),
     listener |-> useEffect(inst.listener, inst.closure,
                            useCallback(inst.closure, n))]

\* One call handleButtonClick(v) of the callback that closes over s, within
\* the bounds: "=" is followed on the expressions EvalJS reads (every
\* expression the buttons build is one), before is the state the call
\* read.  The state updates of the call are rendered, and the effects of
\* that render run, before the next event is handled.
StepFrom(s, v, maxLen) ==
    /\ v = "=" => ParseFits(s.expression) /\ InGrammar(Sanitize(s.expression))
    /\ \E n \in {handleButtonClick(s, v)} :
          /\ InBounds(n, maxLen)
          /\ expression' = n.expression
          /\ screenNumbers' = n.screenNumbers
          /\ previousResult' = n.previousResult
          /\ closure' = useCallback(closure, n)
          /\ listener' = useEffect(listener, closure, useCallback(closure, n))
    /\ before' = s
    /\ UNCHANGED widgetVars

\* A click on button v: onClick calls the callback of the last render.
Step(v, maxLen) == StepFrom(closure, v, maxLen) /\ key' = ""

\* The same, a unary operation within the operands of UnaryInBounds.
ClickWithin(v, maxLen) ==
    /\ v \in UnaryOps => UnaryInBounds(closure, v)
    /\ Step(v, maxLen)

Click(v) == ClickWithin(v, MaxLen)

\* One action per kind of button; val is the button pressed.
PressDigit == \E d \in Digits : Click(d) /\ val' = d
PressOperator == \E op \in Operators : Click(op) /\ val' = op
PressDecimal == Click(COMMA) /\ val' = COMMA
PressUnary == \E op \in UnaryOps : Click(op) /\ val' = op
PressClearAll == Click("C") /\ val' = "C"
PressClearEntry == Click("CE") /\ val' = "CE"
PressBackspace == Click(BACKSPACE) /\ val' = BACKSPACE
PressEquals == Click("=") /\ val' = "="

Init ==
    /\ expression = <<>>
    /\ screenNumbers = <<"0">>
    /\ previousResult = null
    /\ val = ""
    /\ before = InitialState
    /\ closure = InitialState
    /\ listener = InitialState
    /\ key = ""
    /\ page = [i \in Instance |-> Mounted]
    /\ ConverterInit
    /\ TimerInit
    /\ ConnectionInit
    /\ GameInit
    /\ ButtonInit
    /\ WeatherInit

Next ==
    \/ PressDigit
    \/ PressOperator
    \/ PressDecimal
    \/ PressUnary
    \/ PressClearAll
    \/ PressClearEntry
    \/ PressBackspace
    \/ PressEquals

Spec == Init /\ [][Next]_vars


(***************************************************************************)
(* The calculator used for arithmetic only: digits, binary operators and   *)
(* "=", with longer expressions.  The model follows a session up to its    *)
(* first result (after an error the typing starts again).                  *)
(***************************************************************************)
ArithClick(v) == previousResult = null /\ ClickWithin(v, ArithLen)

ArithDigit == \E d \in ArithDigits : ArithClick(d) /\ val' = d
ArithOperator == \E op \in Operators : ArithClick(op) /\ val' = op
ArithEquals == ArithClick("=") /\ val' = "="

NextArith ==
    \/ ArithDigit
    \/ ArithOperator
    \/ ArithEquals

SpecArith == Init /\ [][NextArith]_vars


(***************************************************************************)
(* The calculator used for chained calculations: one digit, two binary     *)
(* operators, ",", backspace, "%" and "=", with results of many fractional *)
(* digits (a percentage of a percentage) and expressions of at most MaxOps *)
(* operators that continue them.                                           *)
(***************************************************************************)
ChainDigits == {"1"}
ChainOperators == {"+", TIMES}

\* The displays the chain takes a percentage of: any display that is no
\* number, and the fractions with a denominator within MaxDenominator.
PercentOperandInBounds(num) ==
    \/ ~isFinite(num)
    \/ /\ num.d <= MaxDenominator
       /\ ParseFits(MathOp(PERCENT, num).str)
PercentInBounds(s) ==
    /\ ParseFits(s.screenNumbers)
    /\ PercentOperandInBounds(parseFloat(s.screenNumbers))

OperatorCount(e) == Cardinality({i \in 1..Len(e) : e[i] \in ChainOperators})

ChainClick(v) ==
    /\ v = PERCENT => PercentInBounds(closure)
    /\ Step(v, ChainLen)
    /\ OperatorCount(expression') <= MaxOps
    /\ previousResult' # null =>
          Abs(previousResult'.n) \div previousResult'.d <= MaxWhole

ChainDigit == \E d \in ChainDigits : ChainClick(d) /\ val' = d
ChainOperator == \E op \in ChainOperators : ChainClick(op) /\ val' = op
ChainDecimal == ChainClick(COMMA) /\ val' = COMMA
ChainBackspace == ChainClick(BACKSPACE) /\ val' = BACKSPACE
ChainPercent == ChainClick(PERCENT) /\ val' = PERCENT
ChainEquals == ChainClick("=") /\ val' = "="

NextChain ==
    \/ ChainDigit
    \/ ChainOperator
    \/ ChainDecimal
    \/ ChainBackspace
    \/ ChainPercent
    \/ ChainEquals

SpecChain == Init /\ [][NextChain]_vars


(***************************************************************************)
(* The calculator used for quotients: the digit 1, the division operator   *)
(* and "=", with expressions long enough for a quotient below 1e-6.        *)
(***************************************************************************)
QuotientClick(v) == ClickWithin(v, QuotientLen)

QuotientDigit == QuotientClick("1") /\ val' = "1"
QuotientOperator == QuotientClick(DIVIDE) /\ val' = DIVIDE
QuotientEquals == QuotientClick("=") /\ val' = "="

NextQuotient ==
    \/ QuotientDigit
    \/ QuotientOperator
    \/ QuotientEquals

SpecQuotient == Init /\ [][NextQuotient]_vars


(***************************************************************************)
(* The keyboard.  event.key is a whole string ("Enter", "5").  handleKeyDown *)
(* is the listener the effect registered on document: it calls the         *)
(* handleButtonClick of the render the effect last ran for.                *)
(***************************************************************************)
keyMapPeriodUnmapped ==
    ("%" :> PERCENT) @@ ("Escape" :> "C") @@ ("Backspace" :> BACKSPACE)
    @@ ("Enter" :> "=") @@ ("=" :> "=") @@ ("+" :> "+") @@ ("-" :> "-")
    @@ ("*" :> TIMES) @@ ("x" :> TIMES) @@ ("X" :> TIMES)
    @@ ("/" :> DIVIDE) @@ ("," :> COMMA) @@ ("." :> ".")
keyMap ==
    ("%" :> PERCENT) @@ ("Escape" :> "C") @@ ("Backspace" :> BACKSPACE)
    @@ ("Enter" :> "=") @@ ("=" :> "=") @@ ("+" :> "+") @@ ("-" :> "-")
    @@ ("*" :> TIMES) @@ ("x" :> TIMES) @@ ("X" :> TIMES)
    @@ ("/" :> DIVIDE) @@ ("," :> COMMA) @@ ("." :> COMMA)

\* The keys the model presses: two digit keys, every key of keyMap, and
\* keys that are neither.
KeyDigits == {"0", "1"}
OtherKeys == {"e", "(", "Tab"}
Keys == KeyDigits \cup DOMAIN keyMap \cup OtherKeys

\* key >= "0" && key <= "9" compares strings: of the values of event.key
\* it holds for the ten digit keys.
IsDigitKey(k) == k \in DigitChars

\* The condition under which handleKeyDown calls handleButtonClick, and
\* the argument of that call, keyMap[key] || key.
Accepted(k) == IsDigitKey(k) \/ k \in DOMAIN keyMap
Argument(k) == IF k \in DOMAIN keyMap THEN keyMap[k] ELSE k

handleKeyDown(k, maxLen) ==
    /\ IF Accepted(k)
       THEN /\ Argument(k) \in UnaryOps => UnaryInBounds(listener, Argument(k))
            /\ StepFrom(listener, Argument(k), maxLen)
            /\ val' = Argument(k)
       ELSE UNCHANGED <<calcVars, val, before, closure, listener, widgetVars>>
    /\ key' = k

\* The buttons the keyboard specification clicks.
KeyButtons == KeyDigits \cup Operators
                  \cup {PERCENT, COMMA, "C", "CE", BACKSPACE, "="}

KeysClick == \E v \in KeyButtons : ClickWithin(v, KeyLen) /\ val' = v
KeyDownDigit == \E k \in KeyDigits : handleKeyDown(k, KeyLen)
KeyDownMapped == \E k \in DOMAIN keyMap : handleKeyDown(k, KeyLen)
KeyDownOther == \E k \in OtherKeys : handleKeyDown(k, KeyLen)

NextKeys ==
    \/ KeysClick
    \/ KeyDownDigit
    \/ KeyDownMapped
    \/ KeyDownOther

SpecKeys == Init /\ [][NextKeys]_vars


(***************************************************************************)
(* Several calculators on one page.  Each instance has its own three       *)
(* state values; each registers its own keydown listener on the one        *)
(* document, so a keydown event runs the listener of every instance.       *)
(***************************************************************************)
PageButtons == {"1", "+", "=", "C"}
PageKeys == {"1", "+", "Enter", "Tab"}

\* The calls the page model follows: "=" on the expressions EvalJS reads,
\* into expressions of at most PageLen characters.
PageInBounds(s, v) ==
    /\ v = "=" => ParseFits(s.expression) /\ InGrammar(Sanitize(s.expression))
    /\ InBounds(handleButtonClick(s, v), PageLen)

\* A click on button v of instance i.
PageClick ==
    /\ \E i \in Instance, v \in PageButtons :
          /\ PageInBounds(page[i].closure, v)
          /\ page' = [page EXCEPT ![i] =
                         Rendered(@, handleButtonClick(page[i].closure, v))]
          /\ val' = v
    /\ key' = ""
    /\ UNCHANGED <<calcVars, before, closure, listener>>
    /\ UNCHANGED <<converterVars, timerVars, connectionVars, gameVars,
                   buttonVars, weatherVars>>

\* The listener of one instance, run for a keydown event of key k.
InstanceKeyDown(inst, k) ==
    IF Accepted(k)
    THEN Rendered(inst, handleButtonClick(inst.listener, Argument(k)))
    ELSE inst

\* A keydown event on the document.
PageKeyDown ==
    /\ \E k \in PageKeys :
          /\ Accepted(k) =>
                \A i \in Instance : PageInBounds(page[i].listener, Argument(k))
          /\ page' = [i \in Instance |-> InstanceKeyDown(page[i], k)]
          /\ key' = k
          /\ val' = IF Accepted(k) THEN Argument(k) ELSE val
    /\ UNCHANGED <<calcVars, before, closure, listener>>
    /\ UNCHANGED <<converterVars, timerVars, connectionVars, gameVars,
                   buttonVars, weatherVars>>

NextPage ==
    \/ PageClick
    \/ PageKeyDown

SpecPage == Init /\ [][NextPage]_vars


(***************************************************************************)
(* CurrencyConverter.  The effect of a render with a new inputCurrency     *)
(* runs fetchExchangeRates; the function closes over that inputCurrency,   *)
(* suspends at the two awaits and resumes when the response arrives, in    *)
(* any order with the other requests in flight and with the selections of  *)
(* the user.  Nothing cancels a request.                                   *)
(***************************************************************************)
\* Three of the nine currencies of the list, and the quotations a response
\* may carry.
Currencies == {"USD", "EUR", "GBP"}
Quotes == {1, 2}
Rates(c, q) == [base |-> c, quote |-> q]

\* The data of a response to the request for currency c: rates of c, or an
\* object without rates.
Responses(c) == {[rates |-> Rates(c, q)] : q \in Quotes}
                    \cup {[rates |-> Undefined]}

\* data && data.rates
HasRatesUnchecked(data) == TRUE
HasRates(data) == data.rates # Undefined

\* Map.prototype.set
MapSet(map, k, v) ==
    [x \in DOMAIN map \cup {k} |-> IF x = k THEN v ELSE map[x]]

\* The sequence s without its i-th element.
Without(s, i) == SubSeq(s, 1, i - 1) \o SubSeq(s, i + 1, Len(s))

ERR_INVALID == "Failed to fetch exchange rates."
ERR_FAILED == "Failed to fetch exchange rates. Please try again later."

\* fetchExchangeRates up to its first await, for the inputCurrency c of the
\* render: the cached rates are used, or a request is issued.
fetchExchangeRates(c) ==
    IF c \in DOMAIN exchangeRateCache
    THEN /\ exchangeRates' = exchangeRateCache[c]
         /\ UNCHANGED <<isLoading, fetches>>
    ELSE /\ Len(fetches) < MaxFetches
         /\ isLoading' = TRUE
         /\ fetches' = Append(fetches, c)
         /\ UNCHANGED exchangeRates

\* The widget is mounted: the effect runs for the initial inputCurrency.
ConverterMount ==
    /\ ~converterMounted
    /\ converterMounted' = TRUE
    /\ fetchExchangeRates(inputCurrency)
    /\ event' = [type |-> "mount", currency |-> inputCurrency, outcome |-> ""]
    /\ UNCHANGED <<inputCurrency, error, exchangeRateCache>>
    /\ UNCHANGED <<calculatorVars, timerVars, connectionVars, gameVars,
                   buttonVars, weatherVars>>

\* The user selects another input currency: setInputCurrency, and the
\* effect of the render that follows.
SelectInputCurrency ==
    /\ converterMounted
    /\ \E c \in Currencies \ {inputCurrency} :
          /\ inputCurrency' = c
          /\ fetchExchangeRates(c)
          /\ event' = [type |-> "select", currency |-> c, outcome |-> ""]
    /\ UNCHANGED <<converterMounted, error, exchangeRateCache>>
    /\ UNCHANGED <<calculatorVars, timerVars, connectionVars, gameVars,
                   buttonVars, weatherVars>>

\* The rest of fetchExchangeRates for the i-th request in flight, when
\* fetch and json() resolve with data.
Resolved(i, data) ==
    /\ IF HasRates(data)
       THEN /\ exchangeRates' = data.rates
            /\ exchangeRateCache' = MapSet(exchangeRateCache, fetches[i], data.rates)
            /\ error' = ""
            /\ event' = [type |-> "response", currency |-> fetches[i],
                         outcome |-> "rates"]
       ELSE /\ error' = ERR_INVALID
            /\ event' = [type |-> "response", currency |-> fetches[i],
                         outcome |-> "invalid"]
            /\ UNCHANGED <<exchangeRates, exchangeRateCache>>
    /\ isLoading' = FALSE
    /\ fetches' = Without(fetches, i)

\* The same when fetch or json() rejects: the catch block.
Rejected(i) ==
    /\ error' = ERR_FAILED
    /\ event' = [type |-> "response", currency |-> fetches[i],
                 outcome |-> "failure"]
    /\ isLoading' = FALSE
    /\ fetches' = Without(fetches, i)
    /\ UNCHANGED <<exchangeRates, exchangeRateCache>>

ResponseArrives ==
    /\ \E i \in 1..Len(fetches) : \E data \in Responses(fetches[i]) :
          Resolved(i, data)
    /\ UNCHANGED <<converterMounted, inputCurrency>>
    /\ UNCHANGED <<calculatorVars, timerVars, connectionVars, gameVars,
                   buttonVars, weatherVars>>

RequestFails ==
    /\ \E i \in 1..Len(fetches) : Rejected(i)
    /\ UNCHANGED <<converterMounted, inputCurrency>>
    /\ UNCHANGED <<calculatorVars, timerVars, connectionVars, gameVars,
                   buttonVars, weatherVars>>

NextConverter ==
    \/ ConverterMount
    \/ SelectInputCurrency
    \/ ResponseArrives
    \/ RequestFails

SpecConverter == Init /\ [][NextConverter]_vars


(***************************************************************************)
(* Timer.  The handlers of a render read the running of that render; the   *)
(* state updates of a handler are rendered before the next event, so that  *)
(* is the current value.  The browser keeps the active intervals; the      *)
(* callback of an active interval may fire at any time.                    *)
(***************************************************************************)
\* setInterval: a new id, active from now on.
setInterval(active, last) == [active |-> active \cup {last + 1}, id |-> last + 1]

\* clearInterval(id): the interval of that id, if any, is no longer active.
clearIntervalKeeps(active, id) == active
clearInterval(active, id) == active \ {id}

\* Start is clicked (the button is disabled while running).
handleStart ==
    /\ timer = "mounted"
    /\ ~running
    /\ lastInterval < MaxIntervals
    /\ IF ~running
       THEN /\ running' = TRUE
            /\ intervals' = setInterval(intervals, lastInterval).active
            /\ intervalRef' = setInterval(intervals, lastInterval).id
            /\ lastInterval' = setInterval(intervals, lastInterval).id
       ELSE UNCHANGED <<running, intervals, intervalRef, lastInterval>>
    /\ timerEvent' = "start"
    /\ UNCHANGED <<timer, seconds>>
    /\ UNCHANGED <<calculatorVars, converterVars, connectionVars, gameVars,
                   buttonVars, weatherVars>>

\* Stop is clicked (the button is disabled unless running).
handleStop ==
    /\ timer = "mounted"
    /\ running
    /\ running' = FALSE
    /\ intervals' = clearInterval(intervals, intervalRef)
    /\ timerEvent' = "stop"
    /\ UNCHANGED <<timer, seconds, intervalRef, lastInterval>>
    /\ UNCHANGED <<calculatorVars, converterVars, connectionVars, gameVars,
                   buttonVars, weatherVars>>

\* Reset is clicked.
handleReset ==
    /\ timer = "mounted"
    /\ running' = FALSE
    /\ intervals' = clearInterval(intervals, intervalRef)
    /\ seconds' = 0
    /\ timerEvent' = "reset"
    /\ UNCHANGED <<timer, intervalRef, lastInterval>>
    /\ UNCHANGED <<calculatorVars, converterVars, connectionVars, gameVars,
                   buttonVars, weatherVars>>

\* The callback of an active interval fires: setSeconds(prev => prev + 1),
\* which changes nothing once the widget is unmounted.
Tick ==
    /\ \E id \in intervals :
          seconds' = IF timer = "mounted" THEN seconds + 1 ELSE seconds
    /\ seconds < MaxSeconds
    /\ timerEvent' = "tick"
    /\ UNCHANGED <<timer, running, intervalRef, intervals, lastInterval>>
    /\ UNCHANGED <<calculatorVars, converterVars, connectionVars, gameVars,
                   buttonVars, weatherVars>>

\* The widget is unmounted: Timer registers no effect, so no cleanup runs.
TimerUnmount ==
    /\ timer = "mounted"
    /\ timer' = "removed"
    /\ timerEvent' = "unmount"
    /\ UNCHANGED <<seconds, running, intervalRef, intervals, lastInterval>>
    /\ UNCHANGED <<calculatorVars, converterVars, connectionVars, gameVars,
                   buttonVars, weatherVars>>

NextTimer ==
    \/ handleStart
    \/ handleStop
    \/ handleReset
    \/ Tick

SpecTimer == Init /\ [][NextTimer]_vars


(***************************************************************************)
(* ConnectionStatus.  The banner's state and refs are read and written as  *)
(* one record; the browser keeps the pending timeouts, and the callback of *)
(* a pending timeout may fire at any time.                                 *)
(***************************************************************************)
OFFLINE == "Internet connection lost!"
ONLINE == "Internet Connection - Back online!"

Banner ==
    [isOnline |-> isOnline, showStatus |-> showStatus, message |-> message,
     timeoutRef |-> timeoutRef, wasOfflineRef |-> wasOfflineRef,
     timeouts |-> timeouts, lastTimeout |-> lastTimeout]

\* The banner becomes b.
Becomes(b) ==
    /\ isOnline' = b.isOnline
    /\ showStatus' = b.showStatus
    /\ message' = b.message
    /\ timeoutRef' = b.timeoutRef
    /\ wasOfflineRef' = b.wasOfflineRef
    /\ timeouts' = b.timeouts
    /\ lastTimeout' = b.lastTimeout

clearHideTimeoutNever(b) == b
clearHideTimeout(b) ==
    IF b.timeoutRef # 0
    THEN [b EXCEPT !.timeouts = @ \ {b.timeoutRef}, !.timeoutRef = 0]
    ELSE b

\* updateStatus after setIsOnline and clearHideTimeout.
StatusBranchNoTimeout(b, online) ==
    IF ~online
      THEN [b EXCEPT !.message = OFFLINE, !.showStatus = TRUE,
                     !.wasOfflineRef = TRUE]
    ELSE IF b.wasOfflineRef
      THEN [b EXCEPT !.message = ONLINE, !.showStatus = TRUE]
    ELSE [b EXCEPT !.showStatus = FALSE]
StatusBranch(b, online) ==
    IF ~online
      THEN [b EXCEPT !.message = OFFLINE, !.showStatus = TRUE,
                     !.wasOfflineRef = TRUE]
    ELSE IF b.wasOfflineRef
      THEN [b EXCEPT !.message = ONLINE, !.showStatus = TRUE,
                     !.timeoutRef = b.lastTimeout + 1,
                     !.timeouts = @ \cup {b.lastTimeout + 1},
                     !.lastTimeout = @ + 1]
    ELSE [b EXCEPT !.showStatus = FALSE]

updateStatus(b, online) ==
    StatusBranch(clearHideTimeout([b EXCEPT !.isOnline = online]), online)

\* The model follows a banner through MaxTimeouts timeouts.
TimeoutsInBounds(b) == b.lastTimeout <= MaxTimeouts

\* The widget is mounted with navigator.onLine = online: the state is
\* initialised, and the effect registers the listeners and checks the
\* status once.
ConnectionMount ==
    /\ connection = "unmounted"
    /\ connection' = "mounted"
    /\ \E online \in BOOLEAN :
          /\ Becomes(updateStatus([Banner EXCEPT !.isOnline = online], online))
          /\ network' = IF online THEN "online" ELSE "offline"
          /\ lost' = ~online
    /\ connectionEvent' = "mount"
    /\ UNCHANGED fired
    /\ UNCHANGED <<calculatorVars, converterVars, timerVars, gameVars,
                   buttonVars, weatherVars>>

\* The window's online event: handleOnline.
handleOnline ==
    /\ connection = "mounted"
    /\ TimeoutsInBounds(updateStatus(Banner, TRUE))
    /\ Becomes(updateStatus(Banner, TRUE))
    /\ network' = "online"
    /\ connectionEvent' = "online"
    /\ UNCHANGED <<connection, lost, fired>>
    /\ UNCHANGED <<calculatorVars, converterVars, timerVars, gameVars,
                   buttonVars, weatherVars>>

\* The window's offline event: handleOffline.
handleOffline ==
    /\ connection = "mounted"
    /\ Becomes(updateStatus(Banner, FALSE))
    /\ network' = "offline"
    /\ lost' = TRUE
    /\ connectionEvent' = "offline"
    /\ UNCHANGED <<connection, fired>>
    /\ UNCHANGED <<calculatorVars, converterVars, timerVars, gameVars,
                   buttonVars, weatherVars>>

\* The callback of a pending hide timeout fires; setShowStatus changes
\* nothing once the widget is unmounted.
HideTimeout ==
    /\ \E id \in timeouts :
          /\ timeouts' = timeouts \ {id}
          /\ showStatus' = IF connection = "mounted" THEN FALSE ELSE showStatus
          /\ wasOfflineRef' = FALSE
    /\ fired' = fired + 1
    /\ connectionEvent' = "timeout"
    /\ UNCHANGED <<connection, isOnline, message, timeoutRef, lastTimeout,
                   network, lost>>
    /\ UNCHANGED <<calculatorVars, converterVars, timerVars, gameVars,
                   buttonVars, weatherVars>>

\* The widget is unmounted: the cleanup of the effect removes the
\* listeners and clears the hide timeout.
ConnectionUnmount ==
    /\ connection = "mounted"
    /\ connection' = "removed"
    /\ Becomes(clearHideTimeout(Banner))
    /\ connectionEvent' = "unmount"
    /\ UNCHANGED <<network, lost, fired>>
    /\ UNCHANGED <<calculatorVars, converterVars, timerVars, gameVars,
                   buttonVars, weatherVars>>

NextConnection ==
    \/ ConnectionMount
    \/ handleOnline
    \/ handleOffline
    \/ HideTimeout
    \/ ConnectionUnmount

SpecConnection == Init /\ [][NextConnection]_vars

\* The browser runs the callback of a pending timeout once its delay has
\* passed.
SpecConnectionLive ==
    Init /\ [][NextConnection]_vars /\ WF_vars(HideTimeout)


(***************************************************************************)
(* The timer and the connection banner on one page, each unmounted at any  *)
(* time.                                                                   *)
(***************************************************************************)
NextUnmount ==
    \/ NextTimer
    \/ TimerUnmount
    \/ NextConnection

SpecUnmount == Init /\ [][NextUnmount]_vars


(***************************************************************************)
(* PaperRockScissors.  The state and the ref of the game are read and      *)
(* written as one record, together with the intervals the browser keeps    *)
(* for it: each active interval has the choice its callback closed over    *)
(* and the cycleCount of that callback.  An icon of the animation is named *)
(* by the choice it depicts.                                               *)
(***************************************************************************)
CHOICES == <<"Paper", "Rock", "Scissors">>
ANIMATION_CYCLE == <<"Rock", "Paper", "Scissors">>
maxCycles == 6

\* key beats value
winConditionsReversed ==
    [Paper |-> "Scissors", Rock |-> "Paper", Scissors |-> "Rock"]
winConditions == [Paper |-> "Rock", Rock |-> "Scissors", Scissors |-> "Paper"]

determineWinner(user, computer) ==
    IF user = computer THEN "draw"
    ELSE IF winConditions[user] = computer THEN "user"
    ELSE "computer"

resultMessages ==
    [draw |-> "It's a Draw!", user |-> "You Win!",
     computer |-> "Computer Wins!"]

scoreMap == [user |-> "userWins", computer |-> "computerWins",
             draw |-> "draws"]

\* setScores(prev => ({...prev, [scoreMap[outcome]]: prev[...] + 1}))
updateScoresTwice(prev, outcome) ==
    [prev EXCEPT ![scoreMap[outcome]] = @ + 2]
updateScores(prev, outcome) ==
    [prev EXCEPT ![scoreMap[outcome]] = @ + 1]

Game ==
    [userChoice |-> userChoice, computerChoice |-> computerChoice,
     result |-> gameResult, isAnimating |-> isAnimating,
     animationChoice |-> animationChoice, scores |-> scores,
     animationIntervalRef |-> animationIntervalRef,
     animations |-> animations, lastAnimation |-> lastAnimation]

\* The game becomes g; the state setters change nothing once the widget
\* is unmounted, the ref and the browser's intervals change all the same.
GameBecomes(g) ==
    /\ animationIntervalRef' = g.animationIntervalRef
    /\ animations' = g.animations
    /\ lastAnimation' = g.lastAnimation
    /\ IF game = "mounted"
       THEN /\ userChoice' = g.userChoice
            /\ computerChoice' = g.computerChoice
            /\ gameResult' = g.result
            /\ isAnimating' = g.isAnimating
            /\ animationChoice' = g.animationChoice
            /\ scores' = g.scores
       ELSE UNCHANGED <<userChoice, computerChoice, gameResult, isAnimating,
                        animationChoice, scores>>

\* f with the entry of id removed, and f with id mapped to v.
Cleared(f, id) == [i \in DOMAIN f \ {id} |-> f[i]]
Started(f, id, v) == [i \in DOMAIN f \cup {id} |-> IF i = id THEN v ELSE f[i]]

playGame(g, choice) ==
    [g EXCEPT !.userChoice = choice, !.isAnimating = TRUE, !.result = "",
              !.computerChoice = "",
              !.animationIntervalRef = g.lastAnimation + 1,
              !.lastAnimation = @ + 1,
              !.animations = Started(@, g.lastAnimation + 1,
                                     [choice |-> choice, cycleCount |-> 0])]

\* The body of the if of the interval callback: the interval of the ref
\* is cleared and the result of the game of this callback is produced.
Finish(g, choice, computer) ==
    [g EXCEPT !.animations = Cleared(@, g.animationIntervalRef),
              !.animationIntervalRef = 0,
              !.computerChoice = computer,
              !.isAnimating = FALSE,
              !.result = resultMessages[determineWinner(choice, computer)],
              !.scores = updateScores(@, determineWinner(choice, computer))]

\* The callback of the interval id, with cycleCount incremented to count.
Counted(g, id, count) ==
    [g EXCEPT !.animationChoice =
                  ANIMATION_CYCLE[((count - 1) % Len(ANIMATION_CYCLE)) + 1],
              !.animations[id].cycleCount = count]

IntervalCallback(g, id, computer) ==
    IF g.animations[id].cycleCount + 1 >= maxCycles
    THEN Finish(Counted(g, id, g.animations[id].cycleCount + 1),
                g.animations[id].choice, computer)
    ELSE Counted(g, id, g.animations[id].cycleCount + 1)

\* The choice buttons are disabled while the animation runs.
ChoiceDisabledNever == FALSE
ChoiceDisabled == isAnimating

\* A choice button is clicked.
ChooseChoice ==
    /\ game = "mounted"
    /\ ~ChoiceDisabled
    /\ lastAnimation < MaxGames
    /\ \E i \in 1..Len(CHOICES) : GameBecomes(playGame(Game, CHOICES[i]))
    /\ started' = started + 1
    /\ ticked' = 0
    /\ gameEvent' = "play"
    /\ UNCHANGED <<game, completed>>
    /\ UNCHANGED <<calculatorVars, converterVars, timerVars, connectionVars,
                   buttonVars, weatherVars>>

\* The callback of an active interval fires; Math.random picks any of
\* the choices.
AnimationTick ==
    /\ \E id \in DOMAIN animations :
          /\ animations[id].cycleCount < 2 * maxCycles
          /\ \E i \in 1..Len(CHOICES) :
                GameBecomes(IntervalCallback(Game, id, CHOICES[i]))
          /\ completed' = IF animations[id].cycleCount + 1 >= maxCycles
                          THEN completed + 1 ELSE completed
    /\ ticked' = ticked + 1
    /\ gameEvent' = "tick"
    /\ UNCHANGED <<game, started>>
    /\ UNCHANGED <<calculatorVars, converterVars, timerVars, connectionVars,
                   buttonVars, weatherVars>>

\* The widget is unmounted: the cleanup of the effect clears the interval
\* of the ref, if any.
GameUnmount ==
    /\ game = "mounted"
    /\ game' = "removed"
    /\ animations' = IF animationIntervalRef # 0
                     THEN Cleared(animations, animationIntervalRef)
                     ELSE animations
    /\ gameEvent' = "unmount"
    /\ UNCHANGED <<userChoice, computerChoice, gameResult, isAnimating,
                   animationChoice, scores, animationIntervalRef,
                   lastAnimation, started, completed, ticked>>
    /\ UNCHANGED <<calculatorVars, converterVars, timerVars, connectionVars,
                   buttonVars, weatherVars>>

NextGame ==
    \/ ChooseChoice
    \/ AnimationTick
    \/ GameUnmount

\* The browser runs the callback of an active interval every 200 ms.
SpecGame == Init /\ [][NextGame]_vars /\ WF_vars(AnimationTick)


(***************************************************************************)
(* ButtonWithLoader.  onClick is a prop: a call of it returns a plain      *)
(* value, returns a promise that is later resolved or rejected, or throws. *)
(* handleClick is an async function: after await onClick() it continues    *)
(* only if the awaited value is not a rejection, and an exception of       *)
(* onClick() ends it at once.                                              *)
(***************************************************************************)
\* What calling onClick can do.
Calls == {"value", "promise", "throws"}

\* The button is disabled while loading.
ButtonDisabled == buttonIsLoading

\* The button is clicked: setIsLoading(true), then onClick() is called.
handleClick ==
    /\ ~ButtonDisabled
    /\ clicks < MaxClicks
    /\ buttonIsLoading' = TRUE
    /\ clicks' = clicks + 1
    /\ \E call \in Calls :
          IF call = "throws"
          THEN /\ operation' = "none"
               /\ settled' = Append(settled, "thrown")
          ELSE /\ operation' = call
               /\ UNCHANGED settled
    /\ buttonEvent' = "click"
    /\ UNCHANGED <<calculatorVars, converterVars, timerVars, connectionVars,
                   gameVars, weatherVars>>

\* The awaited value is available: handleClick continues after the await
\* with setIsLoading(false).
OperationResolves ==
    /\ operation # "none"
    /\ operation' = "none"
    /\ buttonIsLoading' = FALSE
    /\ settled' = Append(settled, IF operation = "value" THEN "returned"
                                                          ELSE "resolved")
    /\ buttonEvent' = "resolve"
    /\ UNCHANGED clicks
    /\ UNCHANGED <<calculatorVars, converterVars, timerVars, connectionVars,
                   gameVars, weatherVars>>

\* The awaited promise is rejected: the await throws and handleClick ends
\* there.
OperationRejects ==
    /\ operation = "promise"
    /\ operation' = "none"
    /\ settled' = Append(settled, "rejected")
    /\ buttonEvent' = "reject"
    /\ UNCHANGED <<buttonIsLoading, clicks>>
    /\ UNCHANGED <<calculatorVars, converterVars, timerVars, connectionVars,
                   gameVars, weatherVars>>

NextButton ==
    \/ handleClick
    \/ OperationResolves
    \/ OperationRejects

SpecButton == Init /\ [][NextButton]_vars


(***************************************************************************)
(* WeatherWidget.  fetchWeather and getWeather are async functions: each   *)
(* runs up to its fetch, and continues when the response of that fetch     *)
(* arrives or the fetch fails; the responses of the fetches in flight      *)
(* arrive in any order.  A weather record is named by its place.           *)
(***************************************************************************)
\* The names typed into the input, and the places a geocoding response
\* lists when it lists several.
CityNames == {"", "Springfield"}
Places == <<"Springfield, Illinois", "Springfield, Missouri">>

ERR_NOT_FOUND == "City not found"
ERR_SEARCH == "Failed to fetch weather"
ERR_NO_DATA == "Weather data not available for this location"
ERR_FORECAST == "Failed to fetch weather data"

\* fetch(url): one more request in flight.
Fetch(kind, place) ==
    /\ requests' = requests \cup {[id |-> lastRequest + 1, kind |-> kind,
                                    place |-> place]}
    /\ lastRequest' = lastRequest + 1

\* The request req is no longer in flight.
Settle(req) == requests' = requests \ {req}

\* onChange of the input: setCity(e.target.value).
ChangeCity ==
    /\ \E name \in CityNames : name # city /\ city' = name
    /\ weatherEvent' = "type"
    /\ UNCHANGED <<weather, loading, weatherError, cityOptions, requests,
                   lastRequest>>
    /\ UNCHANGED <<calculatorVars, converterVars, timerVars, connectionVars,
                   gameVars, buttonVars>>

\* The search button (disabled={loading || !city}) is clicked, or Enter is
\* pressed with city && !loading: fetchWeather up to its fetch.
fetchWeather ==
    /\ city # "" /\ ~loading
    /\ lastRequest < MaxRequests
    /\ loading' = TRUE
    /\ weatherError' = ""
    /\ weather' = ""
    /\ cityOptions' = <<>>
    /\ Fetch("geocode", city)
    /\ weatherEvent' = "search"
    /\ UNCHANGED city
    /\ UNCHANGED <<calculatorVars, converterVars, timerVars, connectionVars,
                   gameVars, buttonVars>>

\* The geocoding response arrives without results.
GeocodeNotFound ==
    /\ \E req \in requests : req.kind = "geocode" /\ Settle(req)
    /\ weatherError' = ERR_NOT_FOUND
    /\ loading' = FALSE
    /\ weatherEvent' = "not found"
    /\ UNCHANGED <<city, weather, cityOptions, lastRequest>>
    /\ UNCHANGED <<calculatorVars, converterVars, timerVars, connectionVars,
                   gameVars, buttonVars>>

\* The geocoding response arrives with several results.
GeocodeSeveral ==
    /\ \E req \in requests : req.kind = "geocode" /\ Settle(req)
    /\ cityOptions' = Places
    /\ loading' = FALSE
    /\ weatherEvent' = "several"
    /\ UNCHANGED <<city, weather, weatherError, lastRequest>>
    /\ UNCHANGED <<calculatorVars, converterVars, timerVars, connectionVars,
                   gameVars, buttonVars>>

\* The geocoding response arrives with one result: fetchWeather awaits
\* getWeather, which runs up to its fetch.
GeocodeOne ==
    /\ lastRequest < MaxRequests
    /\ \E req \in requests :
          /\ req.kind = "geocode"
          /\ requests' = (requests \ {req})
                            \cup {[id |-> lastRequest + 1, kind |-> "forecast",
                                   place |-> req.place]}
    /\ lastRequest' = lastRequest + 1
    /\ weatherEvent' = "one"
    /\ UNCHANGED <<city, weather, loading, weatherError, cityOptions>>
    /\ UNCHANGED <<calculatorVars, converterVars, timerVars, connectionVars,
                   gameVars, buttonVars>>

\* The geocoding fetch fails: the catch of fetchWeather.
GeocodeFails ==
    /\ \E req \in requests : req.kind = "geocode" /\ Settle(req)
    /\ weatherError' = ERR_SEARCH
    /\ loading' = FALSE
    /\ weatherEvent' = "search failed"
    /\ UNCHANGED <<city, weather, cityOptions, lastRequest>>
    /\ UNCHANGED <<calculatorVars, converterVars, timerVars, connectionVars,
                   gameVars, buttonVars>>

\* A city option is clicked: getWeather up to its fetch.
SelectOption ==
    /\ lastRequest < MaxRequests
    /\ \E i \in 1..Len(cityOptions) : Fetch("forecast", cityOptions[i])
    /\ weatherEvent' = "option"
    /\ UNCHANGED <<city, weather, loading, weatherError, cityOptions>>
    /\ UNCHANGED <<calculatorVars, converterVars, timerVars, connectionVars,
                   gameVars, buttonVars>>

\* The forecast arrives with current data.
ForecastArrives ==
    /\ \E req \in requests :
          /\ req.kind = "forecast"
          /\ Settle(req)
          /\ weather' = req.place
    /\ cityOptions' = <<>>
    /\ loading' = FALSE
    /\ weatherEvent' = "weather"
    /\ UNCHANGED <<city, weatherError, lastRequest>>
    /\ UNCHANGED <<calculatorVars, converterVars, timerVars, connectionVars,
                   gameVars, buttonVars>>

\* The forecast arrives without current data.
ForecastMissing ==
    /\ \E req \in requests : req.kind = "forecast" /\ Settle(req)
    /\ weatherError' = ERR_NO_DATA
    /\ loading' = FALSE
    /\ weatherEvent' = "missing"
    /\ UNCHANGED <<city, weather, cityOptions, lastRequest>>
    /\ UNCHANGED <<calculatorVars, converterVars, timerVars, connectionVars,
                   gameVars, buttonVars>>

\* The forecast fetch fails: the catch of getWeather.
ForecastFails ==
    /\ \E req \in requests : req.kind = "forecast" /\ Settle(req)
    /\ weatherError' = ERR_FORECAST
    /\ loading' = FALSE
    /\ weatherEvent' = "forecast failed"
    /\ UNCHANGED <<city, weather, cityOptions, lastRequest>>
    /\ UNCHANGED <<calculatorVars, converterVars, timerVars, connectionVars,
                   gameVars, buttonVars>>

\* The clear button, shown when city || weather, is clicked.
clearSearch ==
    /\ city # "" \/ weather # ""
    /\ city' = ""
    /\ weather' = ""
    /\ weatherError' = ""
    /\ cityOptions' = <<>>
    /\ weatherEvent' = "clear"
    /\ UNCHANGED <<loading, requests, lastRequest>>
    /\ UNCHANGED <<calculatorVars, converterVars, timerVars, connectionVars,
                   gameVars, buttonVars>>

NextWeather ==
    \/ ChangeCity
    \/ fetchWeather
    \/ GeocodeNotFound
    \/ GeocodeSeveral
    \/ GeocodeOne
    \/ GeocodeFails
    \/ SelectOption
    \/ ForecastArrives
    \/ ForecastMissing
    \/ ForecastFails
    \/ clearSearch

SpecWeather == Init /\ [][NextWeather]_vars


(***************************************************************************)
(* Reference notions the claims are stated with.                           *)
(***************************************************************************)
\* The largest position of e that holds a character of set S (0: none).
RECURSIVE LastIndexIn(_, _)
LastIndexIn(e, S) ==
    IF Len(e) = 0 THEN 0
    ELSE IF e[Len(e)] \in S THEN Len(e)
    ELSE LastIndexIn(DropLast(e), S)

\* Digit runs separated by single binary operators.
WellFormed(e) ==
    /\ Len(e) > 0
    /\ \A i \in 1..Len(e) : e[i] \in DigitChars \cup Operators
    /\ e[1] \in DigitChars /\ e[Len(e)] \in DigitChars
    /\ \A i \in 1..(Len(e) - 1) : ~(e[i] \in Operators /\ e[i + 1] \in Operators)

\* The value of a well-formed e in school arithmetic: split at the last
\* + or -, else at the last × or ÷, else read the decimal numeral.
RECURSIVE StdValue(_)
StdValue(e) ==
    LET a == LastIndexIn(e, {"+", "-"})
        m == LastIndexIn(e, {TIMES, DIVIDE})
        k == IF a > 0 THEN a ELSE m
        l == StdValue(SubSeq(e, 1, k - 1))
        r == StdValue(SubSeq(e, k + 1, Len(e)))
    IN  IF k = 0 THEN Num(IntVal(e, 1, Len(e) + 1))
        ELSE IF e[k] = "+" THEN Add(l, r)
        ELSE IF e[k] = "-" THEN Sub(l, r)
        ELSE IF e[k] = TIMES THEN Mul(l, r)
        ELSE Div(l, r)

\* The numeric run after position i of e: up to the next operator.
RECURSIVE RunFrom(_, _)
RunFrom(e, i) ==
    IF i > Len(e) \/ e[i] \in Operators THEN <<>>
    ELSE <<e[i]>> \o RunFrom(e, i + 1)

\* e divides by a literal zero: a ÷ followed by a run of "0" and ",".
DividesByZero(e) ==
    \E i \in 1..Len(e) :
        /\ e[i] = DIVIDE
        /\ Includes(RunFrom(e, i + 1), "0")
        /\ \A j \in 1..Len(RunFrom(e, i + 1)) : RunFrom(e, i + 1)[j] \in {"0", COMMA}

\* A display that is one unsigned numeral written with the decimal comma.
CommaNumeral(scr) ==
    /\ Len(scr) > 0
    /\ \A i \in 1..Len(scr) : scr[i] \in DigitChars \cup {COMMA}
    /\ scr[1] \in DigitChars
    /\ Cardinality({i \in 1..Len(scr) : scr[i] = COMMA}) <= 1

\* A display that denotes a finite real number: an optional sign and one
\* numeral, its separator "," (typed) or "." (a result).
DenotesNumber(scr) ==
    LET body == IF Len(scr) > 0 /\ scr[1] = "-" THEN Tail(scr) ELSE scr
    IN  /\ Len(body) > 0
        /\ \A i \in 1..Len(body) : body[i] \in DigitChars \cup {COMMA, "."}
        /\ body[1] \in DigitChars
        /\ Cardinality({i \in 1..Len(body) : body[i] \in {COMMA, "."}}) <= 1

\* The real number a whole display denotes, "," its decimal separator.
WholeValue(scr) == parseFloat(Sanitize(scr))

\* The unary operations as the specification defines them.
UnaryDefined(v, x) ==
    /\ isFinite(x)
    /\ v = RECIPROCAL => x.n # 0
    /\ v = SQRT => x.n >= 0
UnaryValue(v, x) ==
    IF v = NEGATE THEN Neg(x)
    ELSE IF v = PERCENT THEN Div(x, Num(100))
    ELSE IF v = RECIPROCAL THEN Div(Num(1), x)
    ELSE IF v = SQUARE THEN Mul(x, x)
    ELSE MathSqrt(x)

\* The binary operations, by the operator character of the expression.
BinaryValue(op, x, y) ==
    IF op = "+" THEN Add(x, y)
    ELSE IF op = "-" THEN Sub(x, y)
    ELSE IF op = TIMES THEN Mul(x, y)
    ELSE Div(x, y)

\* The numeric run the expression ends with: what follows its last binary
\* operator.
LastRun(e) == SubSeq(e, LastIndexIn(e, Operators) + 1, Len(e))

\* A state that a sequence of digit tokens alone leaves, the empty sequence
\* included.
AllDigitChars(e) == \A i \in 1..Len(e) : e[i] \in DigitChars
DigitsOnly(s) ==
    /\ s.previousResult = null
    /\ AllDigitChars(s.expression)
    /\ s.screenNumbers = (IF s.expression = <<>> THEN <<"0">> ELSE s.expression)

\* Every token of the calculator: the buttons and the keys mapped to them.
Tokens == DigitChars \cup Operators \cup UnaryOps
              \cup {COMMA, "C", "CE", BACKSPACE, "="}

\* A state the callback can run in again: two strings, the display not
\* empty, and previousResult null or a finite number.
DefinedState(s) ==
    /\ DOMAIN s = {"expression", "screenNumbers", "previousResult"}
    /\ DOMAIN s.expression = 1..Len(s.expression)
    /\ DOMAIN s.screenNumbers = 1..Len(s.screenNumbers)
    /\ Len(s.screenNumbers) > 0
    /\ s.previousResult = null \/ isFinite(s.previousResult)

\* The translated text of e holds a character outside [0-9+\-*/.() ].
HasDisallowed(e) == \E i \in 1..Len(e) : Sanitize(e)[i] \notin AllowedChars

\* A string formatNumber writes for a finite number: what a displayed
\* answer looks like.
IsAnswer(r) == isFinite(parseFloat(r)) /\ formatNumber(parseFloat(r)) = r

\* A digit run without a leading zero.
PlainNumeral(d) ==
    /\ Len(d) > 0
    /\ \A i \in 1..Len(d) : d[i] \in DigitChars
    /\ Len(d) > 1 => d[1] # "0"

\* e is an answer, one binary operator and one operand: the position of
\* that operator (0: e has no such form).
ChainSplit(e) ==
    LET k == LastIndexIn(e, Operators)
    IN  IF /\ k > 1
           /\ ParseFits(e)
           /\ IsAnswer(SubSeq(e, 1, k - 1))
           /\ PlainNumeral(SubSeq(e, k + 1, Len(e)))
        THEN k ELSE 0
\* The value of such an e computed on the answer.
ChainValue(e, k) ==
    BinaryValue(e[k], parseFloat(SubSeq(e, 1, k - 1)),
                Num(IntVal(e, k + 1, Len(e) + 1)))

(***************************************************************************)
(* Claims.                                                                 *)
(***************************************************************************)
\* C1: in every reachable state the display string is never empty.
C1_DisplayNeverEmpty == screenNumbers # <<>>

\* C1 witness: backspace has removed the last character of the expression
\* and the display shows "0".
C1_Witness ==
    /\ val = BACKSPACE
    /\ Len(before.expression) = 1
    /\ expression = <<>>
    /\ screenNumbers = <<"0">>

\* C2 (as claimed): "=" on a well-formed expression of digits and binary
\* operators displays its value under standard precedence and left-to-right
\* associativity.
C2_StandardArithmetic ==
    (/\ val = "="
     /\ WellFormed(before.expression)
     /\ LastIndexIn(before.expression, Operators) > 0
     /\ isFinite(StdValue(before.expression)))
    => screenNumbers = formatNumber(StdValue(before.expression))

\* C3: "=" on a non-empty expression whose evaluation fails (no finite
\* result, a division by zero, a trailing binary operator) leaves exactly
\* the error state.
C3_EvaluateFailure ==
    (/\ val = "="
     /\ ~IsBlank(before.expression)
     /\ \/ ~isFinite(safeEval(before.expression))
        \/ DividesByZero(before.expression)
        \/ EndsInOperator(before.expression))
    => Current = ErrorState

\* C3 witness: 5, ÷, 0, = has led to the error state.
C3_Witness ==
    /\ val = "="
    /\ before.expression = <<"5", DIVIDE, "0">>
    /\ Current = ErrorState

\* C4: C and CE lead from every state to the initial state (hence also
\* when applied again).
C4_ClearIsInitial == val \in {"C", "CE"} => Current = InitialState

\* C4 witness: CE was pressed while a result was shown.
C4_Witness ==
    /\ val = "CE"
    /\ before.previousResult # null
    /\ Current = InitialState

\* C5: previousResult is set exactly in the states a successful "=" or
\* unary operation has just produced, where expression and display are its
\* formatted value; every other token leaves it null.
C5_LastResult ==
    /\ previousResult # null =>
          /\ val \in {"="} \cup UnaryOps
          /\ expression = formatNumber(previousResult)
          /\ screenNumbers = formatNumber(previousResult)
    /\ val \in DigitChars \cup Operators \cup {COMMA, BACKSPACE, "C", "CE"}
          => previousResult = null
    /\ (val = "=" /\ ~IsBlank(before.expression)
           /\ isFinite(safeEval(before.expression)))
          => previousResult # null
    /\ (val \in UnaryOps
           /\ UnaryDefined(val, parseFloat(before.screenNumbers)))
          => previousResult # null

\* C5 witness: "=" has produced a result from an expression under
\* construction.
C5_Witness ==
    /\ val = "="
    /\ before.previousResult = null
    /\ before.expression = <<"4", "+", "5">>
    /\ previousResult = Num(9)

\* C6 (as claimed): the expression holds only digits, the decimal separator
\* and the four binary operators, at most one separator per numeric run.
C6_ValidatedCharacters ==
    /\ \A i \in 1..Len(expression) :
          expression[i] \in DigitChars \cup {COMMA} \cup Operators
    /\ \A i \in 0..Len(expression) :
          (i = 0 \/ expression[i] \in Operators) =>
              Cardinality({j \in 1..Len(RunFrom(expression, i + 1)) :
                              RunFrom(expression, i + 1)[j] = COMMA}) <= 1

\* C7 (as claimed): a unary token applies its operation to the number the
\* whole display denotes, "," its decimal separator.
C7_WholeDisplayOperand ==
    (/\ val \in UnaryOps
     /\ CommaNumeral(before.screenNumbers)
     /\ UnaryDefined(val, WholeValue(before.screenNumbers)))
    => screenNumbers = formatNumber(UnaryValue(val, WholeValue(before.screenNumbers)))

\* C8 (as claimed): after a successful unary token previousResult is the
\* numeric result of the operation.
C8_LastResultIsNumericResult ==
    (/\ val \in UnaryOps
     /\ UnaryDefined(val, parseFloat(before.screenNumbers)))
    => previousResult = UnaryValue(val, parseFloat(before.screenNumbers))

\* C8 (amended): after a successful unary token expression and display are
\* the formatted result and previousResult is the number that formatted
\* result reads back as (the result rounded to 8 fractional digits); the
\* reciprocal of display "4" is shown as 0.25.
C8_UnarySuccess ==
    /\ (val \in UnaryOps
           /\ UnaryDefined(val, parseFloat(before.screenNumbers)))
          => LET r == UnaryValue(val, parseFloat(before.screenNumbers))
             IN  /\ expression = formatNumber(r)
                 /\ screenNumbers = formatNumber(r)
                 /\ previousResult = parseFloat(formatNumber(r))
    /\ (val = RECIPROCAL /\ before.screenNumbers = <<"4">>)
          => screenNumbers = <<"0", ".", "2", "5">>

\* C8 witness: the reciprocal of display "4".
C8_Witness ==
    /\ val = RECIPROCAL
    /\ before.screenNumbers = <<"4">>
    /\ expression = <<"0", ".", "2", "5">>
    /\ screenNumbers = <<"0", ".", "2", "5">>
    /\ previousResult = Frac(1, 4)

\* C9 (as claimed): a unary token whose operation is undefined (reciprocal
\* of 0, square root of a negative number, a display that denotes no finite
\* real number) leaves exactly the error state.
C9_UnaryFailure ==
    (/\ val \in UnaryOps
     /\ \/ ~DenotesNumber(before.screenNumbers)
        \/ ~UnaryDefined(val, WholeValue(before.screenNumbers)))
    => Current = ErrorState

\* C10: a digit pressed while previousResult is set starts a new expression
\* of that digit alone; pressed while it is null, it is appended.
C10_Digit ==
    val \in DigitChars =>
        /\ before.previousResult # null =>
              /\ expression = <<val>>
              /\ screenNumbers = <<val>>
              /\ previousResult = null
        /\ before.previousResult = null =>
              expression = Append(before.expression, val)

\* C10 witness: a digit was pressed while a result was shown.
C10_Witness ==
    /\ val \in DigitChars
    /\ before.previousResult # null
    /\ before.expression # <<val>>
    /\ expression = <<val>>
    /\ previousResult = null

\* C11: a binary operator pressed while previousResult is null and the
\* expression ends in a binary operator replaces that operator, the part
\* before it unchanged; after any binary operator token the expression ends
\* in exactly one operator, the one pressed.
C11_OperatorReplaces ==
    /\ (/\ val \in Operators
        /\ before.previousResult = null
        /\ EndsInOperator(before.expression))
       => /\ expression = Append(DropLast(before.expression), val)
          /\ screenNumbers = expression
          /\ previousResult = null
    /\ val \in Operators =>
          /\ LastChar(expression) = val
          /\ ~EndsInOperator(DropLast(expression))

\* C11 witness: "-" pressed after "4+" has left "4-".
C11_Witness ==
    /\ val = "-"
    /\ before.expression = <<"4", "+">>
    /\ before.previousResult = null
    /\ expression = <<"4", "-">>
\* C12 (first part): a binary operator pressed while previousResult is set
\* leaves expression = display = the displayed result followed by the
\* operator, and previousResult null.
C12_OperatorAppendsToResult ==
    (val \in Operators /\ before.previousResult # null)
    => /\ expression = Append(before.screenNumbers, val)
       /\ screenNumbers = expression
       /\ previousResult = null

\* C12 (as claimed): the first part, and an operand and "=" after it compute
\* on the previous answer: "=" on an answer, an operator and an operand
\* displays the value of that operation on the answer.
C12_OperatorAfterResult ==
    /\ C12_OperatorAppendsToResult
    /\ (/\ val = "="
        /\ ChainSplit(before.expression) > 0
        /\ isFinite(ChainValue(before.expression, ChainSplit(before.expression))))
       => screenNumbers =
             formatNumber(ChainValue(before.expression, ChainSplit(before.expression)))
\* C13: backspace clears everything when previousResult is set; otherwise
\* an expression of at most one character becomes "" with display "0", and a
\* longer one loses exactly its last character, the display showing the
\* remainder.  The display is never left empty.
C13_Backspace ==
    val = BACKSPACE =>
        /\ before.previousResult # null => Current = InitialState
        /\ (before.previousResult = null /\ Len(before.expression) <= 1)
              => /\ expression = <<>>
                 /\ screenNumbers = <<"0">>
                 /\ previousResult = null
        /\ (before.previousResult = null /\ Len(before.expression) > 1)
              => /\ expression = DropLast(before.expression)
                 /\ screenNumbers = expression
                 /\ previousResult = null
        /\ screenNumbers # <<>>

\* C13 witness: backspace has removed the operator of "4+".
C13_Witness ==
    /\ val = BACKSPACE
    /\ before.previousResult = null
    /\ before.expression = <<"4", "+">>
    /\ expression = <<"4">>
    /\ screenNumbers = <<"4">>
\* C14 (as claimed): "=" on an empty or blank expression changes nothing,
\* and so does "," when previousResult is null and the numeric run the
\* expression ends with already has a decimal separator ("," as typed, "."
\* as a result is written).
C14_NoOps ==
    /\ (val = "=" /\ IsBlank(before.expression)) => Current = before
    /\ (/\ val = COMMA
        /\ before.previousResult = null
        /\ \/ Includes(LastRun(before.expression), COMMA)
           \/ Includes(LastRun(before.expression), "."))
       => Current = before
\* C15: "," pressed while previousResult is set leaves expression = display
\* = "0," and previousResult null; pressed while it is null, it appends "0,"
\* to an expression that is empty or ends in a binary operator, and the
\* separator alone to one whose last numeric run has no separator.
C15_Decimal ==
    val = COMMA =>
        /\ before.previousResult # null
              => /\ expression = <<"0", COMMA>>
                 /\ screenNumbers = <<"0", COMMA>>
                 /\ previousResult = null
        /\ (/\ before.previousResult = null
            /\ before.expression = <<>> \/ EndsInOperator(before.expression))
              => /\ expression = before.expression \o <<"0", COMMA>>
                 /\ screenNumbers = expression
                 /\ previousResult = null
        /\ (/\ before.previousResult = null
            /\ LastRun(before.expression) # <<>>
            /\ ~Includes(LastRun(before.expression), COMMA)
            /\ ~Includes(LastRun(before.expression), "."))
              => /\ expression = Append(before.expression, COMMA)
                 /\ screenNumbers = expression
                 /\ previousResult = null

\* C15 witness: "," after the operator of "1+" has left "1+0,".
C15_Witness ==
    /\ val = COMMA
    /\ before.previousResult = null
    /\ before.expression = <<"1", "+">>
    /\ expression = <<"1", "+", "0", COMMA>>
    /\ screenNumbers = expression
\* C16 (first part): a digit token after digit tokens alone appends the
\* digit, the display showing the digits typed.
C16_DigitsConcatenate ==
    (val \in DigitChars /\ DigitsOnly(before))
    => /\ expression = Append(before.expression, val)
       /\ screenNumbers = expression
       /\ previousResult = null

\* C16 (as claimed): the first part, and "=" after a non-empty sequence of
\* digit tokens displays the number typed, its leading zeros collapsed.
C16_DigitSequence ==
    /\ C16_DigitsConcatenate
    /\ (val = "=" /\ DigitsOnly(before) /\ before.expression # <<>>)
       => screenNumbers = IntStr(IntVal(before.expression, 1, Len(before.expression) + 1))
\* C17: a digit or a clear token (C, CE) pressed while the display shows
\* "Error" leaves a display that is the digit, respectively "0", and the
\* very state the same token leaves when pressed in the initial state.
C17_ErrorRecovery ==
    (before.screenNumbers = ErrorStr /\ val \in DigitChars \cup {"C", "CE"})
    => /\ screenNumbers # ErrorStr
       /\ screenNumbers = (IF val \in DigitChars THEN <<val>> ELSE <<"0">>)
       /\ Current = handleButtonClick(InitialState, val)

\* C17 witness: a digit was pressed in the error state.
C17_Witness ==
    /\ before = ErrorState
    /\ val \in DigitChars
    /\ Current = State(<<val>>, <<val>>, null)
\* C18: in every reachable state the display equals the expression, or the
\* expression is empty and the display is "0" or "Error".
C18_DisplayDerived ==
    \/ screenNumbers = expression
    \/ expression = <<>> /\ screenNumbers \in {<<"0">>, ErrorStr}

\* C18 witness: a failed unary operation has left an empty expression under
\* the display "Error".
C18_Witness ==
    /\ val \in UnaryOps
    /\ before.expression # <<>>
    /\ expression = <<>>
    /\ screenNumbers = ErrorStr
\* C19: every token applied in every reachable state yields a defined next
\* state; a unary operation or an evaluation that does not succeed leaves
\* the error state (the evaluation of a blank expression leaves the state
\* as it is).
C19_DefinedNextState ==
    /\ DefinedState(Current)
    /\ \A v \in Tokens :
          (/\ v \in UnaryOps => UnaryInBounds(Current, v)
           /\ v = "=" => ParseFits(expression))
          => DefinedState(handleButtonClick(Current, v))
    /\ val \in UnaryOps => (previousResult # null \/ Current = ErrorState)
    /\ val = "=" =>
          \/ previousResult # null
          \/ Current = ErrorState
          \/ IsBlank(before.expression) /\ Current = before

\* C19 witness: the reciprocal of a display that reads as 0 has been
\* recovered by the error state.
C19_Witness ==
    /\ val = RECIPROCAL
    /\ parseFloat(before.screenNumbers) = Num(0)
    /\ Current = ErrorState
\* C20: "=" on an expression whose translation holds a character outside
\* digits, + - * / . ( ) and space leaves exactly the error state; no such
\* expression is evaluated to a number.
C20_RejectsDisallowed ==
    /\ HasDisallowed(expression) => isNaN(safeEval(expression))
    /\ (val = "=" /\ HasDisallowed(before.expression)) => Current = ErrorState

\* C20 witness: "=" on the expression "1e-8+1", which continues an answer
\* written with an exponent, has left the error state.
C20_Witness ==
    /\ val = "="
    /\ before.expression = <<"1", "e", "-", "8", "+", "1">>
    /\ Current = ErrorState

\* C21: tokens are processed one at a time.  Whenever a token is delivered,
\* by a click or by a mapped key, however the two alternate, the call reads
\* the state the previous token produced (no stale state), and the state
\* after it is handleButtonClick of that state and the token (no update is
\* lost): the final state is the sequential application of the tokens.
C21_Sequential ==
    [][(key' = "" \/ Accepted(key')) =>
          /\ before' = Current
          /\ Current' = handleButtonClick(Current, val')]_vars

\* A key press evaluated the expression that two earlier tokens built.
C21_Witness ==
    /\ key = "Enter"
    /\ before.expression = <<"1", "1">>
    /\ previousResult = Num(11)
    /\ closure = Current
    /\ listener = Current

\* The keys the claim lists and the token of each: the digit keys, Enter,
\* Escape, Backspace, + - * / and the two decimal separators.
ListedKeys ==
    DigitChars \cup {"Enter", "Escape", "Backspace", "+", "-", "*", "/", ".", ","}
ListedToken(k) ==
    CASE k = "Enter" -> "="
      [] k = "Escape" -> "C"
      [] k = "Backspace" -> BACKSPACE
      [] k = "*" -> TIMES
      [] k = "/" -> DIVIDE
      [] k \in {".", ","} -> COMMA
      [] OTHER -> k

\* The listed keys and the four more the widget maps: "%" to percent, "="
\* to evaluate, "x" and "X" to multiply.
MappedKeys == ListedKeys \cup {"%", "=", "x", "X"}
MappedToken(k) ==
    CASE k \in {"x", "X"} -> TIMES
      [] k = "%" -> PERCENT
      [] k = "=" -> "="
      [] OTHER -> ListedToken(k)

\* C22 as stated: a key press of a listed key makes exactly the state
\* transition of its token, and every other key leaves the state unchanged.
C22_KeyMapping ==
    [][key' # "" =>
          Current' = IF key' \in ListedKeys
                     THEN handleButtonClick(Current, ListedToken(key'))
                     ELSE Current]_vars

\* C22 amended: the same with the keys "%", "=", "x" and "X" among the
\* mapped ones.
C22_KeyMappingAmended ==
    [][key' # "" =>
          Current' = IF key' \in MappedKeys
                     THEN handleButtonClick(Current, MappedToken(key'))
                     ELSE Current]_vars

\* The key "x" was pressed after a digit and multiplied.
C22_Witness ==
    /\ key = "x"
    /\ val = TIMES
    /\ expression = <<"1", TIMES>>
    /\ before.expression = <<"1">>

\* C23: the calculator instances of a page are independent.  A token, from
\* a click or from a key press, changes the expression, display and
\* lastResult of at most one instance.
C23_Independent ==
    [][\A i, j \in Instance :
          (page'[i].state # page[i].state /\ page'[j].state # page[j].state)
              => i = j]_vars

\* The part about clicks: a click changes no instance but the one clicked.
C23_ClickIsLocal ==
    [][key' = "" =>
          \E i \in Instance :
              /\ page'[i].state = handleButtonClick(page[i].state, val')
              /\ \A j \in Instance \ {i} : page'[j] = page[j]]_vars

\* The format the claim describes: x rounded to 8 fractional digits, then
\* trailing zeros and a trailing decimal point stripped.
DecimalDigits(t) ==
    IntStr(t.i) \o (IF t.f = 0 THEN <<>>
                    ELSE <<".">> \o StripZeros(PadStr(t.f, FractionDigits)))
DecimalFormat(x) ==
    IF ~isFinite(x) THEN ErrorStr
    ELSE IF ToFixed(x).i = 0 /\ ToFixed(x).f = 0 THEN <<"0">>
    ELSE (IF x.n < 0 THEN <<"-">> ELSE <<>>) \o DecimalDigits(ToFixed(x))

\* C24: every numeric result is shown rounded to at most 8 fractional
\* digits with trailing zeros and a trailing decimal point stripped, and a
\* non-finite value as "Error": the display of a result is that format of
\* the result.
C24_ResultFormat ==
    previousResult # null =>
        /\ screenNumbers = DecimalFormat(previousResult)
        /\ expression = screenNumbers

\* C25: evaluate is idempotent on a finalized result.  From a state that a
\* successful evaluate reached, evaluate leaves expression and display
\* unchanged; from the error state it changes nothing.
C25_EvaluateIdempotent ==
    [][val' = "=" =>
          /\ (val = "=" /\ previousResult # null) =>
                 (expression' = expression /\ screenNumbers' = screenNumbers)
          /\ Current = ErrorState => Current' = ErrorState]_vars

\* C26: for any selections and any order of arrival of the responses, once
\* no request is in flight the exchangeRates of the widget are rates of the
\* selected input currency (no failed request has left an error standing),
\* and isLoading is false only when no request is in flight.
C26_RatesOfSelection ==
    (converterMounted /\ fetches = <<>> /\ error = "") =>
        exchangeRates.base = inputCurrency
C26_LoadingWhileInFlight == ~isLoading => fetches = <<>>
C26_LatestSelection == C26_RatesOfSelection /\ C26_LoadingWhileInFlight

\* C27: the cache gains or changes the entry of a currency only by a
\* successful response that carries rates of that currency; no entry is
\* ever removed or holds another currency's rates; and the selection of a
\* currency that has an entry issues no request and uses the cached rates.
C27_Cache ==
    [][/\ DOMAIN exchangeRateCache \subseteq DOMAIN exchangeRateCache'
       /\ \A c \in DOMAIN exchangeRateCache' :
             /\ exchangeRateCache'[c].base = c
             /\ (c \notin DOMAIN exchangeRateCache
                    \/ exchangeRateCache'[c] # exchangeRateCache[c]) =>
                   event' = [type |-> "response", currency |-> c,
                             outcome |-> "rates"]
       /\ (event'.type = "select"
             /\ event'.currency \in DOMAIN exchangeRateCache) =>
               /\ fetches' = fetches
               /\ exchangeRates' = exchangeRateCache[event'.currency]
               /\ exchangeRateCache' = exchangeRateCache]_vars

\* A cached currency was selected again while a request for another one
\* was in flight, and its cached rates are in use.
C27_Witness ==
    /\ event = [type |-> "select", currency |-> "USD", outcome |-> ""]
    /\ "USD" \in DOMAIN exchangeRateCache
    /\ exchangeRates = exchangeRateCache["USD"]
    /\ exchangeRates.base = "USD"
    /\ fetches = <<"EUR">>

\* C28: for any sequence of Start, Stop and Reset at most one interval is
\* active; while the timer is not running (after Stop or Reset, until the
\* next Start) no interval is active and seconds changes only by Reset;
\* Stop keeps seconds, Reset sets it to 0, and both leave running false.
C28_Timer ==
    [][/\ Cardinality(intervals') <= 1
       /\ ~running' => intervals' = {}
       /\ timerEvent' = "stop" => (seconds' = seconds /\ ~running')
       /\ timerEvent' = "reset" => (seconds' = 0 /\ ~running')
       /\ (~running /\ timerEvent' # "reset") => seconds' = seconds]_vars

\* The timer was started twice and stopped after two seconds.
C28_Witness ==
    /\ timerEvent = "stop"
    /\ lastInterval = 2
    /\ seconds = 2
    /\ ~running
    /\ intervals = {}

\* C30: whenever the most recent online/offline event is offline the
\* banner is shown with the offline message; no hide timeout is pending
\* then (so none scheduled by an earlier reconnection hides the banner);
\* and at most one hide timeout is pending at any time.
C30_OfflineBanner ==
    /\ (connection = "mounted" /\ network = "offline") =>
          /\ showStatus
          /\ message = OFFLINE
          /\ timeouts = {}
    /\ Cardinality(timeouts) <= 1

\* The connection was lost again while the hide timeout of a reconnection
\* was pending: the timeout was cancelled and the offline banner stays.
C30_Witness ==
    /\ connectionEvent = "offline"
    /\ lastTimeout = 1
    /\ fired = 0
    /\ timeouts = {}
    /\ showStatus
    /\ message = OFFLINE

\* C29: every interval or timeout a widget starts is cancelled when the
\* widget unmounts, and no callback of an unmounted widget fires: once
\* the timer is removed no interval of it is active and none ticks, and
\* once the banner is removed no hide timeout is pending and none fires.
C29_BannerCancelled ==
    /\ connection = "removed" => timeouts = {}
    /\ connectionEvent = "timeout" => connection = "mounted"
C29_TimerCancelled ==
    /\ timer = "removed" => intervals = {}
    /\ timerEvent = "tick" => timer = "mounted"
C29_CancelledAtUnmount == C29_TimerCancelled /\ C29_BannerCancelled

\* C31: an online event that follows an offline period shows the
\* back-online message; a banner shown while the connection is up is
\* eventually hidden with the was-offline flag cleared, unless the
\* connection is lost again or the widget is unmounted first; and as long
\* as the connection has never been reported lost no banner is shown.
C31_BackOnline ==
    [][(connection = "mounted" /\ network = "offline"
           /\ connectionEvent' = "online")
        => (showStatus' /\ message' = ONLINE /\ timeoutRef' \in timeouts')]_vars
C31_NeverLost == [](~lost => ~showStatus)
C31_EventuallyHidden ==
    (connection = "mounted" /\ network = "online" /\ showStatus)
        ~> \/ connection # "mounted"
           \/ network # "online"
           \/ ~showStatus /\ ~wasOfflineRef
C31_Reconnection == C31_BackOnline /\ C31_NeverLost /\ C31_EventuallyHidden

\* The connection was lost and came back, and the hide timeout has fired:
\* the banner is hidden and the flag cleared.
C31_Witness ==
    /\ connectionEvent = "timeout"
    /\ network = "online"
    /\ lost
    /\ fired = 1
    /\ message = ONLINE
    /\ ~showStatus
    /\ ~wasOfflineRef

\* The classic rules: the pairs (winner, loser), the outcome of a pair of
\* choices, and an outcome seen from the other side.
Choice == {"Paper", "Rock", "Scissors"}
Beats == {<<"Paper", "Rock">>, <<"Rock", "Scissors">>, <<"Scissors", "Paper">>}
Classic(user, computer) ==
    IF user = computer THEN "draw"
    ELSE IF <<user, computer>> \in Beats THEN "user"
    ELSE "computer"
Swapped(winner) ==
    CASE winner = "user" -> "computer"
      [] winner = "computer" -> "user"
      [] OTHER -> winner

\* C32: determineWinner follows the classic rules for all 9 pairs of
\* choices, swapping its arguments swaps "user" and "computer", and the
\* result shown for a finished game is the one the classic rules give
\* for the two choices shown.
C32_ClassicRules ==
    /\ \A u \in Choice, c \in Choice :
          /\ determineWinner(u, c) = Classic(u, c)
          /\ determineWinner(u, c) = "draw" <=> u = c
          /\ determineWinner(c, u) = Swapped(determineWinner(u, c))
    /\ (started > 0 /\ ~isAnimating) =>
          gameResult = resultMessages[Classic(userChoice, computerChoice)]

\* A game the user won with scissors against paper.
C32_Witness ==
    /\ ~isAnimating
    /\ userChoice = "Scissors"
    /\ computerChoice = "Paper"
    /\ gameResult = "You Win!"
    /\ scores.userWins = 1

\* C33: every started game completes exactly once.  The 6th callback of
\* a game clears the interval, ends the animation, sets a result message
\* and adds exactly 1 to the one score matching the result; no other
\* step changes the scores; a running animation eventually ends (unless
\* the widget is unmounted first); and the scores always sum to the
\* number of completed games, which lags the number of started games by
\* one exactly while a game is animating.
C33_SixthTick ==
    [][(isAnimating /\ ticked = maxCycles - 1 /\ ticked' = maxCycles)
        => /\ DOMAIN animations' = {}
           /\ animationIntervalRef' = 0
           /\ ~isAnimating'
           /\ completed' = completed + 1
           /\ \/ /\ gameResult' = "You Win!"
                 /\ scores' = [scores EXCEPT !.userWins = @ + 1]
              \/ /\ gameResult' = "It's a Draw!"
                 /\ scores' = [scores EXCEPT !.draws = @ + 1]
              \/ /\ gameResult' = "Computer Wins!"
                 /\ scores' = [scores EXCEPT !.computerWins = @ + 1]]_vars
C33_OnlySixthTick ==
    [][(scores' # scores \/ completed' # completed
           \/ (isAnimating /\ ~isAnimating'))
        => (ticked = maxCycles - 1 /\ ticked' = maxCycles)]_vars
C33_Scores ==
    /\ scores.userWins + scores.draws + scores.computerWins = completed
    /\ game = "mounted" =>
          started = IF isAnimating THEN completed + 1 ELSE completed
C33_Ends ==
    (game = "mounted" /\ isAnimating) ~> (game # "mounted" \/ ~isAnimating)
C33_Completes ==
    C33_SixthTick /\ C33_OnlySixthTick /\ []C33_Scores /\ C33_Ends

\* Three games were played: one won, one drawn, one lost.
C33_Witness ==
    /\ completed = 3
    /\ ~isAnimating
    /\ scores = [userWins |-> 1, draws |-> 1, computerWins |-> 1]
    /\ gameResult = "Computer Wins!"

\* C34: a game is started only while no animation runs; at most one
\* animation interval is active at any time, the one of the ref while a
\* game is animating; and no interval is active once the result of its
\* game has been produced.
C34_Intervals ==
    /\ Cardinality(DOMAIN animations) <= 1
    /\ ~isAnimating => DOMAIN animations = {}
    /\ (game = "mounted" /\ isAnimating) =>
          DOMAIN animations = {animationIntervalRef}
C34_StartedWhenIdle ==
    [][started' # started => (~isAnimating /\ DOMAIN animations = {})]_vars
C34_OneInterval == []C34_Intervals /\ C34_StartedWhenIdle

\* The second game is animating, on the one interval of the page.
C34_Witness ==
    /\ started = 2
    /\ completed = 1
    /\ isAnimating
    /\ ticked = 3
    /\ DOMAIN animations = {2}

\* C35: the button is loading as long as the operation of a click has
\* not finished, and once every call of onClick has settled, however it
\* settled, the button is enabled again.
C35_Reenabled ==
    /\ operation # "none" => buttonIsLoading
    /\ operation = "none" => ~buttonIsLoading

\* The parts of C35 that do not depend on how onClick settles: the button
\* is loading while the operation runs, onClick is called only while the
\* button is not loading, and after a call that resolved the button is
\* enabled again.
C35_LoadingWhileRunning == operation # "none" => buttonIsLoading
C35_NoSecondCall == [][clicks' # clicks => ~buttonIsLoading]_vars
C35_ReenabledWhenResolved ==
    (operation = "none"
        /\ \A i \in 1..Len(settled) : settled[i] \in {"returned", "resolved"})
        => ~buttonIsLoading

\* The outcomes on display: the error message, the list of city options,
\* the weather data.
Shown ==
    (IF weatherError # "" THEN {"error"} ELSE {})
        \cup (IF Len(cityOptions) > 0 THEN {"options"} ELSE {})
        \cup (IF weather # "" THEN {"weather"} ELSE {})

\* C36: once no fetch is in flight loading is false, and at most one of
\* the error message, the list of city options and the weather data is
\* shown at any time.
C36_OneOutcome ==
    /\ requests = {} => ~loading
    /\ Cardinality(Shown) <= 1

\* The part of C36 about loading: whenever every fetch has settled,
\* whatever the outcomes, loading is false.
C36_LoadingEnds == requests = {} => ~loading
====
